---------------------------- MODULE Spec2Model ----------------------------
(***************************************************************************)
(* A model of aircot (src/src/aircot/functions.py, constants.py): the      *)
(* country-range table built at import, the CIV/MIL range cache, the       *)
(* category decision table, the known-craft override and the functions     *)
(* that combine them into a Cursor-on-Target type code.                    *)
(*                                                                         *)
(* Python strings are sequences of one-character strings, so that          *)
(* startswith, slicing, formatting and hex parsing are computed.  A value  *)
(* whose Python type is a union (None | int | str) is a tagged record.     *)
(***************************************************************************)
EXTENDS Integers, Sequences, FiniteSets, TLC

VARIABLES
    phase,          \* "import" while the module body runs, then "ready"
    log,            \* level of the message logged by the import ("none" if none)
    ICAO_SORTED,    \* _ICAO_SORTED: rows {start, end, country} sorted by start
    ICAO_STARTS,    \* _ICAO_STARTS: the starts of ICAO_SORTED, same order
    RANGE_CACHE,    \* _RANGE_CACHE: "CIV" / "MIL" -> keys of DEFAULT_HEX_RANGES
    HEX_RANGES,     \* DEFAULT_HEX_RANGES, in insertion order
    AIRLINES,       \* DOMESTIC_US_AIRLINES
    known_db,       \* the caller's index returned by read_known_craft
    call,           \* the sequential caller's call: <<operation, arguments, result>>
    pc,             \* per thread: position inside its call
    loc             \* per thread: the call's arguments and local variables

tables == <<ICAO_SORTED, ICAO_STARTS, RANGE_CACHE, HEX_RANGES, AIRLINES>>
threads == <<pc, loc>>
vars == <<phase, log, ICAO_SORTED, ICAO_STARTS, RANGE_CACHE, HEX_RANGES,
          AIRLINES, known_db, call, pc, loc>>

-----------------------------------------------------------------------------
(* Python values *)

PyNone == [t |-> "None", v |-> <<>>]
PyInt(n) == [t |-> "int", v |-> n]
PyStr(s) == [t |-> "str", v |-> s]

\* bool(x) for None, int and str
Truthy(x) ==
    CASE x.t = "None" -> FALSE
      [] x.t = "int" -> x.v # 0
      [] x.t = "str" -> x.v # <<>>

\* s.startswith(p)
StartsWith(s, p) == Len(s) >= Len(p) /\ SubSeq(s, 1, Len(p)) = p

\* p in s (substring test)
Contains(s, p) ==
    \E i \in 1..(Len(s) - Len(p) + 1) : SubSeq(s, i, i + Len(p) - 1) = p

\* s[:n]
Prefix(s, n) == SubSeq(s, 1, IF n < Len(s) THEN n ELSE Len(s))

\* s.replace(c, "") for a one-character c
RECURSIVE Remove(_, _)
Remove(s, c) ==
    IF s = <<>> THEN <<>>
    ELSE (IF Head(s) = c THEN <<>> ELSE <<Head(s)>>) \o Remove(Tail(s), c)

Digits == <<"0", "1", "2", "3", "4", "5", "6", "7", "8", "9">>

\* str(n) for n >= 0
RECURSIVE IntToStr(_)
IntToStr(n) ==
    IF n < 10 THEN <<Digits[n + 1]>>
    ELSE IntToStr(n \div 10) \o <<Digits[(n % 10) + 1]>>

\* str(x) of a category value
Str(x) ==
    CASE x.t = "None" -> <<"N", "o", "n", "e">>
      [] x.t = "int" -> IntToStr(x.v)
      [] x.t = "str" -> x.v

HexLower == <<"a", "b", "c", "d", "e", "f">>
HexUpper == <<"A", "B", "C", "D", "E", "F">>

\* value of one hexadecimal digit, -1 if the character is none
HexDigit(c) ==
    IF \E i \in 1..10 : Digits[i] = c
    THEN (CHOOSE i \in 1..10 : Digits[i] = c) - 1
    ELSE IF \E i \in 1..6 : HexLower[i] = c
    THEN (CHOOSE i \in 1..6 : HexLower[i] = c) + 9
    ELSE IF \E i \in 1..6 : HexUpper[i] = c
    THEN (CHOOSE i \in 1..6 : HexUpper[i] = c) + 9
    ELSE -1

RECURSIVE HexValue(_, _)
HexValue(s, acc) ==
    IF s = <<>> THEN acc ELSE HexValue(Tail(s), acc * 16 + HexDigit(Head(s)))

\* whether int(s, 16) succeeds: digits only, at least one
IsHex(s) == s # <<>> /\ \A i \in 1..Len(s) : HexDigit(s[i]) >= 0

\* int(s, 16); -1 stands for the ValueError of an unparsable string
ParseHex(s) == IF IsHex(s) THEN HexValue(s, 0) ELSE -1

-----------------------------------------------------------------------------
(* constants.py *)

DOMESTIC_US_AIRLINES ==
    << <<"A","A","L">>, <<"U","A","L">>, <<"F","D","X">>, <<"U","P","S">>,
       <<"S","W","A">>, <<"D","A","L">>, <<"J","B","U">>, <<"A","S","A">>,
       <<"S","K","W">>, <<"F","F","T">>, <<"N","K","S">>, <<"A","A","Y">>,
       <<"S","W","Q">>, <<"F","L","G">>, <<"C","P","Z">>, <<"R","P","A">>,
       <<"E","N","Y">>, <<"G","J","S">>, <<"J","I","A">>, <<"P","D","T">>,
       <<"C","H","Q">>, <<"E","J","A">>, <<"C","S","Q">>, <<"X","O","J">> >>

DEFAULT_HEX_RANGES ==
    << [key |-> <<"U","S","-","C","I","V">>, start |-> \hA00000, end |-> \hADF7C7],
       [key |-> <<"U","S","-","M","I","L">>, start |-> \hADF7C8, end |-> \hAFFFFF],
       [key |-> <<"C","A","N","-","C","I","V">>, start |-> \hC00000, end |-> \hC0CDF8],
       [key |-> <<"C","A","N","-","M","I","L">>, start |-> \hC0CDF9, end |-> \hC3FFFF],
       [key |-> <<"N","Z","-","C","I","V">>, start |-> \hC80000, end |-> \hC87DFF],
       [key |-> <<"N","Z","-","g","n","d">>, start |-> \hC87E00, end |-> \hC87EFF],
       [key |-> <<"N","Z","-","M","I","L">>, start |-> \hC87F00, end |-> \hC87FFF],
       [key |-> <<"A","U","S","-","C","I","V">>, start |-> \h7C0000, end |-> \h7FFFFF],
       [key |-> <<"A","U","S","-","M","I","L">>, start |-> \h7CF800, end |-> \h7CFAFF],
       [key |-> <<"U","K","-","C","I","V">>, start |-> \h400000, end |-> \h43FFFF],
       [key |-> <<"U","K","-","M","I","L">>, start |-> \h43C000, end |-> \h43CFFF] >>

\* [k for k in DEFAULT_HEX_RANGES if tag in k]
RECURSIVE KeysWith(_, _)
KeysWith(ranges, tag) ==
    IF ranges = <<>> THEN <<>>
    ELSE (IF Contains(Head(ranges).key, tag) THEN <<Head(ranges).key>> ELSE <<>>)
         \o KeysWith(Tail(ranges), tag)

CIV_RANGES == KeysWith(DEFAULT_HEX_RANGES, <<"-","C","I","V">>)
MIL_RANGES == KeysWith(DEFAULT_HEX_RANGES, <<"-","M","I","L">>)

-----------------------------------------------------------------------------
(* The import of functions.py: the country table *)

RowFields == {"start", "end", "country"}

\* one row of the comprehension: None if row[...] or int(..., 16) raises
ConvertRow(row) ==
    IF RowFields \subseteq DOMAIN row /\ IsHex(row["start"]) /\ IsHex(row["end"])
    THEN [start |-> ParseHex(row["start"]), end |-> ParseHex(row["end"]),
          country |-> row["country"]]
    ELSE PyNone

\* insert r after every row whose start is not greater: sorted() is stable
RECURSIVE InsertByStart(_, _)
InsertByStart(sorted, r) ==
    IF sorted = <<>> THEN <<r>>
    ELSE IF Head(sorted).start <= r.start
         THEN <<Head(sorted)>> \o InsertByStart(Tail(sorted), r)
         ELSE <<r>> \o sorted

\* sorted(rows, key=lambda x: x["start"])
RECURSIVE SortedByStart(_)
SortedByStart(rows) ==
    IF rows = <<>> THEN <<>>
    ELSE InsertByStart(SortedByStart(SubSeq(rows, 1, Len(rows) - 1)),
                       rows[Len(rows)])

Starts(sorted) == [i \in 1..Len(sorted) |-> sorted[i].start]

\* the table and the log level the import ends with, for one countries file
\* file = [exists, json, is_list, rows]
LoadResult(file) ==
    IF ~file.exists
    THEN [sorted |-> <<>>, level |-> "warning"]
    ELSE IF file.json /\ ~file.is_list
    THEN [sorted |-> <<>>, level |-> "none"]
    ELSE IF \E i \in 1..Len(file.rows) : ConvertRow(file.rows[i]) = PyNone
    THEN [sorted |-> <<>>, level |-> "error"]
    ELSE [sorted |-> SortedByStart([i \in 1..Len(file.rows) |->
                                        ConvertRow(file.rows[i])]),
          level |-> "none"]

-----------------------------------------------------------------------------
(* lookup_country *)

\* a variant that searches to the left of equal starts: bisect.bisect_left
RECURSIVE bisect_left(_, _, _, _)
bisect_left(a, x, lo, hi) ==
    IF lo < hi
    THEN LET mid == (lo + hi) \div 2
         IN  IF a[mid + 1] < x
             THEN bisect_left(a, x, mid + 1, hi)
             ELSE bisect_left(a, x, lo, mid)
    ELSE lo

\* bisect.bisect_right(a, x, lo, hi)
RECURSIVE bisect_right(_, _, _, _)
bisect_right(a, x, lo, hi) ==
    IF lo < hi
    THEN LET mid == (lo + hi) \div 2
         IN  IF x < a[mid + 1]
             THEN bisect_right(a, x, lo, mid)
             ELSE bisect_right(a, x, mid + 1, hi)
    ELSE lo

\* a variant that takes the nearest preceding row without testing its end
lookup_country_nearest(sorted, starts, icao) ==
    LET idx == bisect_right(starts, icao, 0, Len(starts)) - 1
    IN  IF idx >= 0 THEN PyStr(sorted[idx + 1].country) ELSE PyNone

\* lookup_country(icao) on the given table
lookup_country_in(sorted, starts, icao) ==
    LET idx == bisect_right(starts, icao, 0, Len(starts)) - 1
    IN  IF idx >= 0
        THEN LET entry == sorted[idx + 1]
             IN  IF entry.start <= icao /\ icao <= entry.end
                 THEN PyStr(entry.country)
                 ELSE PyNone
        ELSE PyNone

lookup_country(icao) == lookup_country_in(ICAO_SORTED, ICAO_STARTS, icao)

\* the lookup_country of the earlier module, a scan of every row in which the
\* last row that contains the address decides
RECURSIVE lookup_country_scan(_, _)
lookup_country_scan(ranges, icao) ==
    IF ranges = <<>> THEN PyNone
    ELSE LET country_dict == ranges[Len(ranges)]
         IN  IF country_dict.start <= icao /\ icao <= country_dict.end
             THEN PyStr(country_dict.country)
             ELSE lookup_country_scan(SubSeq(ranges, 1, Len(ranges) - 1), icao)

-----------------------------------------------------------------------------
(* Affiliation rules *)

\* get_icao_range(range_type): _RANGE_CACHE.get(range_type, [])
get_icao_range(range_type) ==
    IF range_type \in DOMAIN RANGE_CACHE THEN RANGE_CACHE[range_type] ELSE <<>>

\* DEFAULT_HEX_RANGES[idx]
RangeAt(idx) ==
    HEX_RANGES[CHOOSE i \in 1..Len(HEX_RANGES) : HEX_RANGES[i].key = idx]

\* a variant that tests the ranges of both kinds, whatever range_type is
icao_in_known_range_any_kind(icao_int, range_type) ==
    LET keys == get_icao_range("CIV") \o get_icao_range("MIL")
    IN  \E i \in 1..Len(keys) :
            RangeAt(keys[i]).start <= icao_int /\ icao_int <= RangeAt(keys[i]).end

\* icao_in_known_range(icao_int, range_type)
icao_in_known_range(icao_int, range_type) ==
    LET keys == get_icao_range(range_type)
    IN  \E i \in 1..Len(keys) :
            RangeAt(keys[i]).start <= icao_int /\ icao_int <= RangeAt(keys[i]).end

\* set_friendly_mil(icao, attitude, affil) -> <<attitude, affil>>
set_friendly_mil(icao, attitude, affil) ==
    IF icao_in_known_range(icao, "MIL") THEN << <<"f">>, <<"M">> >>
    ELSE <<attitude, affil>>

\* set_neutral_civ(icao, attitude, affil) -> <<attitude, affil>>
set_neutral_civ(icao, attitude, affil) ==
    IF icao_in_known_range(icao, "CIV") THEN << <<"n">>, <<"C">> >>
    ELSE <<attitude, affil>>

\* is_known_country_icao(icao, attitude)
is_known_country_icao(icao, attitude) ==
    IF Truthy(lookup_country(icao)) THEN <<"n">> ELSE attitude

tw_start == \h899000
tw_end == \h8993FF

\* is_tw(icao, attitude)
is_tw(icao, attitude) ==
    IF tw_start <= icao /\ icao <= tw_end THEN <<"n">> ELSE attitude

\* a variant that finds the prefix anywhere in the flight
set_domestic_us_anywhere(flight, attitude) ==
    IF Truthy(flight)
       /\ \E i \in 1..Len(AIRLINES) : Contains(flight.v, AIRLINES[i])
    THEN <<"n">>
    ELSE attitude

\* set_domestic_us(flight, attitude)
set_domestic_us(flight, attitude) ==
    IF Truthy(flight)
       /\ \E i \in 1..Len(AIRLINES) : StartsWith(flight.v, AIRLINES[i])
    THEN <<"n">>
    ELSE attitude

\* a variant that does not look at the affiliation
dolphin_any_affil(flight, affil) ==
    /\ Truthy(flight)
    /\ Len(flight.v) >= 3
    /\ Prefix(flight.v, 2) = <<"C", "6">>

\* dolphin(flight, affil)
dolphin(flight, affil) ==
    /\ Truthy(flight)
    /\ Len(flight.v) >= 3
    /\ Prefix(flight.v, 2) = <<"C", "6">>
    /\ affil = <<"M">>

\* is_dolphin(affil, cot_type, flight)
is_dolphin(affil, cot_type, flight) ==
    IF dolphin(flight, affil)
    THEN <<"a", "-", "f", "-", "A", "-">> \o affil \o <<"-", "H", "-", "H">>
    ELSE cot_type

-----------------------------------------------------------------------------
(* Category table *)

\* a variant that takes a code for listed when it starts with a listed code
InList_prefix(x, list) ==
    \E i \in 1..Len(list) :
        Len(list[i]) <= Len(x) /\ SubSeq(x, 1, Len(list[i])) = list[i]

InList(x, list) == \E i \in 1..Len(list) : list[i] = x

CatFixedWing ==
    << <<"1">>, <<"2">>, <<"3">>, <<"4">>, <<"5">>,
       <<"A","1">>, <<"A","2">>, <<"A","3">>, <<"A","4">>, <<"A","5">> >>
CatFastMover == << <<"6">>, <<"A","6">> >>
CatRotor == << <<"7">>, <<"A","7">> >>
CatGlider == << <<"9">>, <<"B","1">> >>
CatBalloon == << <<"1","0">>, <<"B","2">> >>
CatDrone == << <<"1","4">>, <<"B","6">> >>
CatSpace == << <<"1","5">>, <<"B","7">> >>
CatSurface == << <<"1","7">>, <<"1","8">>, <<"C","1">>, <<"C","2">> >>
CatObstacle == << <<"1","9">>, <<"2","0">>, <<"C","3">>, <<"C","4">> >>
CatNoInfo ==
    << <<"0">>, <<"8">>, <<"1","3">>, <<"1","6">>, <<"2","2">>, <<"2","3">>,
       <<"2","4">>, <<"2","5">>, <<"2","6">>, <<"2","7">>, <<"2","8">>,
       <<"2","9">>, <<"3","0">>, <<"3","1">>, <<"3","2">>, <<"3","3">>,
       <<"3","4">>, <<"3","5">>, <<"3","6">>, <<"3","7">>, <<"3","8">>,
       <<"3","9">>, <<"A","0">>, <<"B","0">>, <<"B","5">>, <<"C","0">>,
       <<"C","6">>, <<"C","7">>, <<"D","0">>, <<"D","1">>, <<"D","2">>,
       <<"D","3">>, <<"D","4">>, <<"D","5">>, <<"D","6">>, <<"D","7">> >>

\* a variant that leaves the affiliation out of the type code
Compose_no_affil(attitude, domain, affil, suffix) ==
    <<"a", "-">> \o attitude \o <<"-">> \o domain \o suffix

\* f"a-{attitude}-{domain}-{affil}{suffix}"
Compose(attitude, domain, affil, suffix) ==
    <<"a", "-">> \o attitude \o <<"-">> \o domain \o <<"-">> \o affil \o suffix

SurfaceLiteral ==
    <<"a", "-", ".", "-", "G", "-", "E", "-", "V", "-", "C", "-", "U">>

ObstacleSuffix ==
    <<"-", "I", "-", "U", "-", "T", "-", "c", "o", "m", "-", "t", "o", "w">>

\* a variant that keeps the input affiliation for 6/A6
cot_type_from_category_affil_kept(category, attitude, affil, cot_type) ==
    LET c == Str(category)
    IN  IF InList(c, CatFixedWing)
        THEN [cot_type |-> PyStr(Compose(attitude, <<"A">>, affil, <<"-", "F">>)),
              affil |-> affil]
        ELSE IF InList(c, CatFastMover)
        THEN [cot_type |-> PyStr(Compose(attitude, <<"A">>, affil,
                                         <<"-", "F", "-", "F">>)),
              affil |-> affil]
        ELSE IF InList(c, CatRotor)
        THEN [cot_type |-> PyStr(Compose(attitude, <<"A">>, affil, <<"-", "H">>)),
              affil |-> affil]
        ELSE IF InList(c, CatGlider)
        THEN [cot_type |-> PyStr(Compose(attitude, <<"A">>, affil, <<"-", "F">>)),
              affil |-> affil]
        ELSE IF InList(c, CatBalloon)
        THEN [cot_type |-> PyStr(Compose(attitude, <<"A">>, affil, <<"-", "L">>)),
              affil |-> affil]
        ELSE IF InList(c, CatDrone)
        THEN [cot_type |-> PyStr(Compose(attitude, <<"A">>, <<"M">>,
                                         <<"-", "F", "-", "Q">>)),
              affil |-> <<"M">>]
        ELSE IF InList(c, CatSpace)
        THEN [cot_type |-> PyStr(Compose(attitude, <<"P">>, affil, <<>>)),
              affil |-> affil]
        ELSE IF InList(c, CatSurface)
        THEN [cot_type |-> PyStr(SurfaceLiteral), affil |-> affil]
        ELSE IF InList(c, CatObstacle)
        THEN [cot_type |-> PyStr(<<"a", "-">> \o attitude \o <<"-", "G">>
                                 \o ObstacleSuffix),
              affil |-> affil]
        ELSE IF InList(c, CatNoInfo)
        THEN [cot_type |-> PyStr(Compose(attitude, <<"A">>, affil, <<>>)),
              affil |-> affil]
        ELSE [cot_type |-> cot_type, affil |-> affil]

\* cot_type_from_category(category, attitude, affil, cot_type)
\*   -> [cot_type, affil]; cot_type is None | str as in the signature
cot_type_from_category(category, attitude, affil, cot_type) ==
    LET c == Str(category)
    IN  IF InList(c, CatFixedWing)
        THEN [cot_type |-> PyStr(Compose(attitude, <<"A">>, affil, <<"-", "F">>)),
              affil |-> affil]
        ELSE IF InList(c, CatFastMover)
        THEN [cot_type |-> PyStr(Compose(attitude, <<"A">>, <<"M">>,
                                         <<"-", "F", "-", "F">>)),
              affil |-> <<"M">>]
        ELSE IF InList(c, CatRotor)
        THEN [cot_type |-> PyStr(Compose(attitude, <<"A">>, affil, <<"-", "H">>)),
              affil |-> affil]
        ELSE IF InList(c, CatGlider)
        THEN [cot_type |-> PyStr(Compose(attitude, <<"A">>, affil, <<"-", "F">>)),
              affil |-> affil]
        ELSE IF InList(c, CatBalloon)
        THEN [cot_type |-> PyStr(Compose(attitude, <<"A">>, affil, <<"-", "L">>)),
              affil |-> affil]
        ELSE IF InList(c, CatDrone)
        THEN [cot_type |-> PyStr(Compose(attitude, <<"A">>, <<"M">>,
                                         <<"-", "F", "-", "Q">>)),
              affil |-> <<"M">>]
        ELSE IF InList(c, CatSpace)
        THEN [cot_type |-> PyStr(Compose(attitude, <<"P">>, affil, <<>>)),
              affil |-> affil]
        ELSE IF InList(c, CatSurface)
        THEN [cot_type |-> PyStr(SurfaceLiteral), affil |-> affil]
        ELSE IF InList(c, CatObstacle)
        THEN [cot_type |-> PyStr(<<"a", "-">> \o attitude \o <<"-", "G">>
                                 \o ObstacleSuffix),
              affil |-> affil]
        ELSE IF InList(c, CatNoInfo)
        THEN [cot_type |-> PyStr(Compose(attitude, <<"A">>, affil, <<>>)),
              affil |-> affil]
        ELSE [cot_type |-> cot_type, affil |-> affil]

-----------------------------------------------------------------------------
(* adsb_to_cot_type *)

\* a variant that leaves the "~" marker in the string it parses
icao_to_int_marker_kept(icao) ==
    IF icao.t = "str" THEN ParseHex(icao.v) ELSE icao.v

\* lines 143-146: the numeric address (-1: int() raised ValueError)
icao_to_int(icao) ==
    IF icao.t = "str" THEN ParseHex(Remove(icao.v, "~")) ELSE icao.v

\* a variant that runs the country lookup after the friendly-military check
affiliation_chain_country_last(icao, flight) ==
    LET a1 == set_domestic_us(flight, <<"u">>)
        a2 == is_tw(icao, a1)
        p3 == set_neutral_civ(icao, a2, <<"C">>)
        p4 == set_friendly_mil(icao, p3[1], p3[2])
        a5 == is_known_country_icao(icao, p4[1])
    IN  <<a5, p4[2]>>

\* lines 129-156: <<attitude, affil>> after the five rule steps
affiliation_chain(icao, flight) ==
    LET a1 == set_domestic_us(flight, <<"u">>)
        a2 == is_tw(icao, a1)
        p3 == set_neutral_civ(icao, a2, <<"C">>)
        a4 == is_known_country_icao(icao, p3[1])
        p5 == set_friendly_mil(icao, a4, p3[2])
    IN  p5

\* lines 158-161: [cot_type, affil] after the category step
category_step(category, attitude, affil) ==
    LET cot_type == Compose(attitude, <<"A">>, affil, <<>>)
    IN  IF Truthy(category)
        THEN LET r == cot_type_from_category(category, attitude, affil,
                                             PyStr(cot_type))
             IN  [cot_type |-> r.cot_type.v, affil |-> r.affil]
        ELSE [cot_type |-> cot_type, affil |-> affil]

\* adsb_to_cot_type(icao, category, flight): the returned cot_type with the
\* locals it was computed from: attitude and affil after line 156, affil_cat
\* and stepped (cot_type) after line 161; exc names the exception raised
adsb_to_cot_type(icao, category, flight) ==
    LET n == icao_to_int(icao)
    IN  IF n < 0
        THEN [exc |-> "ValueError", cot_type |-> <<>>, attitude |-> <<>>,
              affil |-> <<>>, affil_cat |-> <<>>, stepped |-> <<>>]
        ELSE LET p == affiliation_chain(n, flight)
                 c == category_step(category, p[1], p[2])
             IN  [exc |-> "", cot_type |-> is_dolphin(c.affil, c.cot_type, flight),
                  attitude |-> p[1], affil |-> p[2], affil_cat |-> c.affil,
                  stepped |-> c.cot_type]

-----------------------------------------------------------------------------
(* Known craft *)

Lower == <<"a","b","c","d","e","f","g","h","i","j","k","l","m",
           "n","o","p","q","r","s","t","u","v","w","x","y","z">>
Upper == <<"A","B","C","D","E","F","G","H","I","J","K","L","M",
           "N","O","P","Q","R","S","T","U","V","W","X","Y","Z">>

UpperChar(c) ==
    IF \E i \in 1..26 : Lower[i] = c
    THEN Upper[CHOOSE i \in 1..26 : Lower[i] = c]
    ELSE c

\* s.upper()
ToUpper(s) == [i \in 1..Len(s) |-> UpperChar(s[i])]

Whitespace == {" ", "\t", "\n", "\r"}

RECURSIVE LStrip(_)
LStrip(s) ==
    IF s # <<>> /\ Head(s) \in Whitespace THEN LStrip(Tail(s)) ELSE s

RECURSIVE RStrip(_)
RStrip(s) ==
    IF s # <<>> /\ s[Len(s)] \in Whitespace
    THEN RStrip(SubSeq(s, 1, Len(s) - 1))
    ELSE s

\* s.strip()
Strip(s) == RStrip(LStrip(s))

EmptyDict == [k \in {} |-> <<>>]

\* d.get(k): None | str
DictGet(d, k) == IF k \in DOMAIN d THEN PyStr(d[k]) ELSE PyNone

\* d.get(k, "")
DictGetStr(d, k) == IF k \in DOMAIN d THEN d[k] ELSE <<>>

\* a variant that lets a given category decide before the known COT
set_cot_type_rules_first(icao_hex, category, flight, known_craft) ==
    LET cot_type == DictGet(known_craft, "COT")
    IN  IF Truthy(cot_type) /\ ~Truthy(category)
        THEN [exc |-> "", cot_type |-> cot_type.v]
        ELSE LET r == adsb_to_cot_type(icao_hex, category, flight)
             IN  [exc |-> r.exc, cot_type |-> r.cot_type]

\* set_cot_type(icao_hex, category, flight, known_craft)
set_cot_type(icao_hex, category, flight, known_craft) ==
    LET cot_type == DictGet(known_craft, "COT")
    IN  IF Truthy(cot_type)
        THEN [exc |-> "", cot_type |-> cot_type.v]
        ELSE LET r == adsb_to_cot_type(icao_hex, category, flight)
             IN  [exc |-> r.exc, cot_type |-> r.cot_type]

\* a variant that derives the category only when none was given
set_category_explicit_kept(category, known_craft) ==
    IF Truthy(DictGet(known_craft, "COT")) \/ Truthy(category) THEN category
    ELSE LET known_type == ToUpper(Strip(DictGetStr(known_craft, "TYPE")))
         IN  IF known_type = <<>> THEN category
             ELSE IF known_type = <<"F","I","X","E","D"," ","W","I","N","G">>
             THEN PyStr(<<"1">>)
             ELSE IF known_type = <<"H","E","L","I","C","O","P","T","E","R">>
             THEN PyStr(<<"7">>)
             ELSE IF known_type = <<"U","A","S">>
             THEN PyStr(<<"1","4">>)
             ELSE PyStr(known_type)

\* set_category(category, known_craft)
set_category(category, known_craft) ==
    IF Truthy(DictGet(known_craft, "COT")) THEN category
    ELSE LET known_type == ToUpper(Strip(DictGetStr(known_craft, "TYPE")))
         IN  IF known_type = <<>> THEN category
             ELSE IF known_type = <<"F","I","X","E","D"," ","W","I","N","G">>
             THEN PyStr(<<"1">>)
             ELSE IF known_type = <<"H","E","L","I","C","O","P","T","E","R">>
             THEN PyStr(<<"7">>)
             ELSE IF known_type = <<"U","A","S">>
             THEN PyStr(<<"1","4">>)
             ELSE PyStr(known_type)

\* a variant in which a flight of the feed goes before the known CALLSIGN
set_name_callsign_flight_first(icao, reg, craft_type, flight, known_craft) ==
    LET known == DictGet(known_craft, "CALLSIGN")
        name == IF Truthy(known) THEN known.v
                ELSE <<"I","C","A","O","-">> \o icao
        callsign ==
            IF Truthy(flight) THEN ToUpper(Strip(flight.v))
            ELSE IF Truthy(known) THEN name
            ELSE IF Truthy(reg) /\ Truthy(craft_type)
            THEN reg.v \o <<"-">> \o craft_type.v
            ELSE IF Truthy(reg) THEN reg.v
            ELSE name
    IN  <<name, callsign \o <<" ", "(">> \o icao \o <<")">> >>

\* a variant that returns the callsign without the address
set_name_callsign_bare(icao, reg, craft_type, flight, known_craft) ==
    LET known == DictGet(known_craft, "CALLSIGN")
        name == IF Truthy(known) THEN known.v
                ELSE <<"I","C","A","O","-">> \o icao
        callsign ==
            IF Truthy(known) THEN name
            ELSE IF Truthy(flight) /\ Truthy(reg) /\ Truthy(craft_type)
            THEN ToUpper(Strip(flight.v)) \o <<"-">> \o reg.v
                 \o <<"-">> \o craft_type.v
            ELSE IF Truthy(reg) /\ Truthy(craft_type)
            THEN reg.v \o <<"-">> \o craft_type.v
            ELSE IF Truthy(flight) THEN ToUpper(Strip(flight.v))
            ELSE IF Truthy(reg) THEN reg.v
            ELSE name
    IN  <<name, callsign>>

\* set_name_callsign(icao, reg, craft_type, flight, known_craft)
\*   -> <<name, callsign>>
set_name_callsign(icao, reg, craft_type, flight, known_craft) ==
    LET known == DictGet(known_craft, "CALLSIGN")
        name == IF Truthy(known) THEN known.v
                ELSE <<"I","C","A","O","-">> \o icao
        callsign ==
            IF Truthy(known) THEN name
            ELSE IF Truthy(flight) /\ Truthy(reg) /\ Truthy(craft_type)
            THEN ToUpper(Strip(flight.v)) \o <<"-">> \o reg.v
                 \o <<"-">> \o craft_type.v
            ELSE IF Truthy(reg) /\ Truthy(craft_type)
            THEN reg.v \o <<"-">> \o craft_type.v
            ELSE IF Truthy(flight) THEN ToUpper(Strip(flight.v))
            ELSE IF Truthy(reg) THEN reg.v
            ELSE name
    IN  <<name, callsign \o <<" ", "(">> \o icao \o <<")">> >>

\* a variant of the index build in which the first row of a key stays
RECURSIVE IndexBy_first_kept(_, _)
IndexBy_first_kept(all_rows, field) ==
    IF all_rows = <<>> THEN EmptyDict
    ELSE LET after == IndexBy_first_kept(Tail(all_rows), field)
             row == Head(all_rows)
             val == ToUpper(Strip(DictGetStr(row, field)))
         IN  IF val # <<>>
             THEN [k \in DOMAIN after \cup {val} |->
                      IF k = val THEN row ELSE after[k]]
             ELSE after

\* lines 595-607: the indexes read_known_craft builds over the kept rows
RECURSIVE IndexBy(_, _)
IndexBy(all_rows, field) ==
    IF all_rows = <<>> THEN EmptyDict
    ELSE LET before == IndexBy(SubSeq(all_rows, 1, Len(all_rows) - 1), field)
             row == all_rows[Len(all_rows)]
             val == ToUpper(Strip(DictGetStr(row, field)))
         IN  IF val # <<>>
             THEN [k \in DOMAIN before \cup {val} |->
                      IF k = val THEN row ELSE before[k]]
             ELSE before

build_index(all_rows) ==
    [rows |-> all_rows,
     hex_index |-> IndexBy(all_rows, "HEX"),
     reg_index |-> IndexBy(all_rows, "REG")]

NoDb == [rows |-> <<>>, hex_index |-> EmptyDict, reg_index |-> EmptyDict]

\* a variant that tries the registration before the address
get_known_craft_reg_first(filter_db, icao_hex, reg) ==
    IF ~filter_db.loaded THEN EmptyDict
    ELSE LET hkey == IF Truthy(icao_hex) THEN ToUpper(Strip(icao_hex.v)) ELSE <<>>
             rkey == IF Truthy(reg) THEN ToUpper(Strip(reg.v)) ELSE <<>>
             hidx == filter_db.db.hex_index
             ridx == filter_db.db.reg_index
         IN  IF Truthy(reg) /\ rkey \in DOMAIN ridx /\ ridx[rkey] # EmptyDict
             THEN ridx[rkey]
             ELSE IF Truthy(icao_hex) /\ hkey \in DOMAIN hidx /\ hidx[hkey] # EmptyDict
             THEN hidx[hkey]
             ELSE EmptyDict

\* get_known_craft(filter_db, icao_hex, reg) with filter_db = [loaded, db]:
\* not loaded stands for a falsy filter_db
get_known_craft(filter_db, icao_hex, reg) ==
    IF ~filter_db.loaded THEN EmptyDict
    ELSE LET hkey == IF Truthy(icao_hex) THEN ToUpper(Strip(icao_hex.v)) ELSE <<>>
             rkey == IF Truthy(reg) THEN ToUpper(Strip(reg.v)) ELSE <<>>
             hidx == filter_db.db.hex_index
             ridx == filter_db.db.reg_index
         IN  IF Truthy(icao_hex) /\ hkey \in DOMAIN hidx /\ hidx[hkey] # EmptyDict
             THEN hidx[hkey]
             ELSE IF Truthy(reg) /\ rkey \in DOMAIN ridx /\ ridx[rkey] # EmptyDict
             THEN ridx[rkey]
             ELSE EmptyDict

-----------------------------------------------------------------------------
(* read_known_craft: from the file to the rows *)

LowerChar(c) ==
    IF \E i \in 1..26 : Upper[i] = c
    THEN Lower[CHOOSE i \in 1..26 : Upper[i] = c]
    ELSE c

\* s.lower()
ToLower(s) == [i \in 1..Len(s) |-> LowerChar(s[i])]

RECURSIVE LStripQuote(_)
LStripQuote(s) ==
    IF s # <<>> /\ Head(s) = "\"" THEN LStripQuote(Tail(s)) ELSE s

RECURSIVE RStripQuote(_)
RStripQuote(s) ==
    IF s # <<>> /\ s[Len(s)] = "\""
    THEN RStripQuote(SubSeq(s, 1, Len(s) - 1))
    ELSE s

\* s.strip().strip('"').strip()
Clean(s) == Strip(RStripQuote(LStripQuote(Strip(s))))

HexNames == { <<"h","e","x","i","d">>, <<"h","e","x">>, <<"i","c","a","o">> }
RegNames == { <<"r","e","g">>, <<"r","e","g","i","s","t","r","a","t","i","o","n">>,
              <<"t","a","i","l">> }
CotNames == { <<"c","o","t">>, <<"t","y","p","e","_","c","o","t">>,
              <<"c","o","t","t","y","p","e">>, <<"c","o","t"," ","t","y","p","e">> }

\* the dict key written with the characters u, for the other columns in use
FieldName(u) ==
    CASE u = <<"T","Y","P","E">> -> "TYPE"
      [] u = <<"C","A","L","L","S","I","G","N">> -> "CALLSIGN"
      [] OTHER -> "NOTE"

\* lines 525-532 and 578-587: the standard name of a column
StandardName(key) ==
    LET key_lower == ToLower(key)
    IN  IF key_lower \in HexNames THEN "HEX"
        ELSE IF key_lower \in RegNames THEN "REG"
        ELSE IF key_lower \in CotNames THEN "COT"
        ELSE FieldName(ToUpper(key))

\* d[k] = v
Put(d, k, v) == [x \in DOMAIN d \cup {k} |-> IF x = k THEN v ELSE d[x]]

\* lines 521-532: a JSON row, a sequence of <<key, value>>, values as they are
RECURSIVE NormalizeJsonRow(_)
NormalizeJsonRow(row) ==
    IF row = <<>> THEN EmptyDict
    ELSE LET before == NormalizeJsonRow(SubSeq(row, 1, Len(row) - 1))
             item == row[Len(row)]
         IN  Put(before, StandardName(item[1]), item[2])

\* lines 563-587: a row of csv.DictReader, keys and values cleaned
RECURSIVE NormalizeCsvRow(_)
NormalizeCsvRow(row) ==
    IF row = <<>> THEN EmptyDict
    ELSE LET before == NormalizeCsvRow(SubSeq(row, 1, Len(row) - 1))
             item == row[Len(row)]
             clean_key == Clean(item[1])
             clean_value == IF Truthy(item[2]) THEN Clean(item[2].v) ELSE <<>>
         IN  IF clean_key = <<>> \/ Head(clean_key) = "#" THEN before
             ELSE Put(before, StandardName(clean_key), PyStr(clean_value))

\* normalized.get(k) is truthy
HasValue(normalized, k) == k \in DOMAIN normalized /\ Truthy(normalized[k])

\* lines 562-591: the rows of a delimited file that are kept
RECURSIVE NormalizeCsv(_)
NormalizeCsv(raw_rows) ==
    IF raw_rows = <<>> THEN <<>>
    ELSE LET normalized == NormalizeCsvRow(Head(raw_rows))
         IN  (IF HasValue(normalized, "HEX") \/ HasValue(normalized, "REG")
              THEN <<normalized>> ELSE <<>>)
             \o NormalizeCsv(Tail(raw_rows))

\* lines 519-534: the rows of a JSON document, all of them
NormalizeJson(rows) == [i \in 1..Len(rows) |-> NormalizeJsonRow(rows[i])]

\* lines 599 and 603: row.get(k, "").strip() raises on a value that is no string
KeyRaises(row, k) == k \in DOMAIN row /\ row[k].t # "str"

\* the row with its string values; a value that is no string is read nowhere
Plain(row) == [k \in DOMAIN row |-> IF row[k].t = "str" THEN row[k].v ELSE <<>>]

\* read_known_craft(known_file) for a file
\*   [exists, ext_json, json, json_rows, csv_rows]:
\* json is what json.load gives ("none": no JSON, else list, aircraft, object,
\* scalar), csv_rows what csv.DictReader yields for the lines left at line 558
read_known_craft(file) ==
    IF ~file.exists THEN [exc |-> "FileNotFoundError", db |-> NoDb]
    ELSE IF file.ext_json /\ file.json = "none"
    THEN [exc |-> "JSONDecodeError", db |-> NoDb]
    ELSE LET all_rows ==
                 IF file.ext_json
                 THEN NormalizeJson(IF file.json \in {"list", "aircraft"}
                                    THEN file.json_rows ELSE <<>>)
                 ELSE NormalizeCsv(file.csv_rows)
         IN  IF \E i \in 1..Len(all_rows) :
                    KeyRaises(all_rows[i], "HEX") \/ KeyRaises(all_rows[i], "REG")
             THEN [exc |-> "AttributeError", db |-> NoDb]
             ELSE [exc |-> "",
                   db |-> build_index([i \in 1..Len(all_rows) |->
                                           Plain(all_rows[i])])]

-----------------------------------------------------------------------------
(* Sample inputs *)

Brazil == <<"B","r","a","z","i","l">>
Luxembourg == <<"L","u","x","e","m","b","o","u","r","g">>
NewZealand == <<"N","e","w"," ","Z","e","a","l","a","n","d">>

Row(s, e, c) == [start |-> s, end |-> e, country |-> c]
JsonList(rows) == [exists |-> TRUE, json |-> TRUE, is_list |-> TRUE, rows |-> rows]

h4D0000 == <<"4","D","0","0","0","0">>
h4D03FF == <<"4","D","0","3","F","F">>
hC80000 == <<"C","8","0","0","0","0">>
hC87FFF == <<"C","8","7","F","F","F">>
hC87F00 == <<"C","8","7","F","0","0">>
hE40000 == <<"E","4","0","0","0","0">>
hE7FFFF == <<"E","7","F","F","F","F">>
hAE2682 == <<"A","E","2","6","8","2">>

\* countries files of the full specification: absent, a JSON object, a row
\* without "end", disjoint ranges (JSON and CSV), and a range nested in another
CountryFiles ==
    { [exists |-> FALSE, json |-> FALSE, is_list |-> FALSE, rows |-> <<>>],
      [exists |-> TRUE, json |-> TRUE, is_list |-> FALSE, rows |-> <<>>],
      JsonList(<< Row(hE40000, hE7FFFF, Brazil),
                  [start |-> h4D0000, country |-> Luxembourg] >>),
      JsonList(<< Row(hE40000, hE7FFFF, Brazil),
                  Row(h4D0000, h4D03FF, Luxembourg),
                  Row(hC80000, hC87FFF, NewZealand) >>),
      [exists |-> TRUE, json |-> FALSE, is_list |-> FALSE,
       rows |-> << Row(h4D0000, h4D03FF, Luxembourg),
                   Row(hE40000, hE7FFFF, Brazil) >>],
      JsonList(<< Row(h4D0000, hE7FFFF, Brazil),
                  Row(hC87F00, hC87F00, NewZealand) >>) }

Addresses ==
    { PyInt(0), PyInt(\h400000), PyInt(\h43C000), PyInt(\h4D0223),
      PyInt(\h7CF800), PyInt(\h899000), PyInt(\h8993FF), PyInt(\h899400),
      PyInt(\hA61D00), PyInt(\hADF7C8), PyInt(\hC87E00), PyInt(\hC87F00),
      PyInt(\hC87FFF), PyInt(\hE40000),
      PyStr(<<"a","6","1","d","0","0">>),
      PyStr(<<"~","c","8","7","f","0","0">>),
      PyStr(<<"A","E","2","6","8","2">>) }

IntAddresses == {a.v : a \in {x \in Addresses : x.t = "int"}}

SeqToSet(q) == {q[i] : i \in 1..Len(q)}

ListedCategories ==
    SeqToSet(CatFixedWing \o CatFastMover \o CatRotor \o CatGlider
             \o CatBalloon \o CatDrone \o CatSpace \o CatSurface
             \o CatObstacle \o CatNoInfo)

UnlistedCategories ==
    { <<"1","1">>, <<"1","2">>, <<"2","1">>, <<"B","3">>, <<"B","4">>,
      <<"C","5">>, <<"a","6">>, <<"4","0">> }

\* every category code of the table, some outside it, and int codes
AllCategories ==
    {PyStr(c) : c \in ListedCategories \cup UnlistedCategories}
    \cup {PyInt(n) : n \in {1, 6, 7, 14, 17, 19, 21}}

\* the categories passed to adsb_to_cot_type: one or two codes of each group
Categories ==
    { PyNone, PyInt(0), PyInt(1), PyInt(6), PyInt(17), PyStr(<<>>),
      PyStr(<<"A","3">>), PyStr(<<"A","6">>), PyStr(<<"7">>),
      PyStr(<<"B","1">>), PyStr(<<"B","2">>), PyStr(<<"1","4">>),
      PyStr(<<"B","7">>), PyStr(<<"C","1">>), PyStr(<<"1","9">>),
      PyStr(<<"C","4">>), PyStr(<<"D","6">>), PyStr(<<"2","1">>),
      PyStr(<<"a","6">>) }

Flights ==
    { PyNone, PyStr(<<>>), PyStr(<<"U","A","L","2","1","5","3">>),
      PyStr(<<"u","a","l","1">>), PyStr(<<"S","V","W","2","0","E">>),
      PyStr(<<"C","6">>), PyStr(<<"C","6","1","2","3","4">>),
      PyStr(<<"c","6","1","2","3","4">>) }

Attitudes == { <<"u">>, <<"n">>, <<"f">>, <<".">> }
Affiliations == { <<"C">>, <<"M">>, <<"x">> }

CotFriendlyCivFixed == <<"a","-","f","-","A","-","C","-","F">>

KnownCrafts ==
    { EmptyDict,
      [COT |-> CotFriendlyCivFixed],
      [COT |-> <<>>, TYPE |-> <<"H","e","l","i","c","o","p","t","e","r">>],
      [TYPE |-> <<"U","A","S">>, CALLSIGN |-> <<"R","E","S","C","U","E">>] }

KnownRows ==
    << [COT |-> CotFriendlyCivFixed,
        HEX |-> <<"a","e","2","6","8","2">>, REG |-> <<"N","1","7","0","8","5">>],
       [TYPE |-> <<"U","A","S">>,
        HEX |-> <<>>, REG |-> <<"n","1","7","0","8","5">>] >>

HexKeys == { PyNone, PyStr(<<"A","E","2","6","8","2">>),
             PyStr(<<" ","a","e","2","6","8","2">>), PyStr(<<"0","0">>) }
RegKeys == { PyNone, PyStr(<<"N","1","7","0","8","5">>), PyStr(<<"X">>) }

-----------------------------------------------------------------------------
(* The state machine: the import, then a sequential caller *)

Threads == {1, 2}

PyDict(d) == [t |-> "dict", v |-> d]
PyTuple(x) == [t |-> "tuple", v |-> x]
PyRaise(e) == [t |-> "raise", v |-> e]

Args(icao, category, flight, reg, craft_type, known_craft) ==
    [icao |-> icao, flight |-> flight, category |-> category,
     known_craft |-> known_craft, reg |-> reg, craft_type |-> craft_type]

NoArgs == Args(PyNone, PyNone, PyNone, PyNone, PyNone, EmptyDict)

\* the frame of a call: its arguments, then the locals of adsb_to_cot_type
Frame(op, a) ==
    [icao |-> a.icao, icao_int |-> -1, attitude |-> <<>>, affil |-> <<>>,
     flight |-> a.flight, cot_type |-> <<>>, category |-> a.category,
     known_craft |-> a.known_craft, reg |-> a.reg, craft_type |-> a.craft_type,
     op |-> op, result |-> PyNone]

NoLoc == Frame("idle", NoArgs)

Idle == <<"idle", <<>>, <<>>>>

Init ==
    /\ phase = "import"
    /\ log = "none"
    /\ ICAO_SORTED = <<>>
    /\ ICAO_STARTS = <<>>
    /\ RANGE_CACHE = [k \in {} |-> <<>>]
    /\ HEX_RANGES = DEFAULT_HEX_RANGES
    /\ AIRLINES = DOMESTIC_US_AIRLINES
    /\ known_db = [loaded |-> FALSE, db |-> NoDb]
    /\ call = Idle
    /\ pc = [t \in Threads |-> "idle"]
    /\ loc = [t \in Threads |-> NoLoc]

\* the module body of functions.py, lines 34-72, for one countries file
Import(file) ==
    /\ phase = "import"
    /\ LET r == LoadResult(file)
       IN  /\ ICAO_SORTED' = r.sorted
           /\ ICAO_STARTS' = Starts(r.sorted)
           /\ log' = r.level
    /\ RANGE_CACHE' = [k \in {"CIV", "MIL"} |->
                          IF k = "CIV" THEN CIV_RANGES ELSE MIL_RANGES]
    /\ phase' = "ready"
    /\ UNCHANGED <<HEX_RANGES, AIRLINES, known_db, call, threads>>

\* the sequential caller's call: it is ready, and the result is recorded
Returns(op, args, val) ==
    /\ phase = "ready"
    /\ call[1] = "idle"
    /\ call' = <<op, args, val>>

Call_lookup_country(icao) ==
    /\ Returns("lookup_country", <<icao>>, lookup_country(icao))
    /\ UNCHANGED <<phase, log, tables, known_db, threads>>

Call_is_known_country_icao(icao, attitude) ==
    /\ Returns("is_known_country_icao", <<icao, attitude>>,
               is_known_country_icao(icao, attitude))
    /\ UNCHANGED <<phase, log, tables, known_db, threads>>

Call_get_icao_range(range_type) ==
    /\ Returns("get_icao_range", <<range_type>>, get_icao_range(range_type))
    /\ UNCHANGED <<phase, log, tables, known_db, threads>>

Call_icao_in_known_range(icao, range_type) ==
    /\ Returns("icao_in_known_range", <<icao, range_type>>,
               icao_in_known_range(icao, range_type))
    /\ UNCHANGED <<phase, log, tables, known_db, threads>>

Call_adsb_to_cot_type(icao, category, flight) ==
    /\ Returns("adsb_to_cot_type", <<icao, category, flight>>,
               adsb_to_cot_type(icao, category, flight))
    /\ UNCHANGED <<phase, log, tables, known_db, threads>>

Call_cot_type_from_category(category, attitude, affil, cot_type) ==
    /\ Returns("cot_type_from_category", <<category, attitude, affil, cot_type>>,
               cot_type_from_category(category, attitude, affil, cot_type))
    /\ UNCHANGED <<phase, log, tables, known_db, threads>>

Call_set_category(category, known_craft) ==
    /\ Returns("set_category", <<category, known_craft>>,
               set_category(category, known_craft))
    /\ UNCHANGED <<phase, log, tables, known_db, threads>>

Call_set_cot_type(icao_hex, category, flight, known_craft) ==
    /\ Returns("set_cot_type", <<icao_hex, category, flight, known_craft>>,
               set_cot_type(icao_hex, category, flight, known_craft))
    /\ UNCHANGED <<phase, log, tables, known_db, threads>>

\* a variant that takes the record it finds out of the hex index
Call_get_known_craft_pop(icao_hex, reg) ==
    LET hkey == IF Truthy(icao_hex) THEN ToUpper(Strip(icao_hex.v)) ELSE <<>>
        hidx == known_db.db.hex_index
    IN  /\ Returns("get_known_craft", <<icao_hex, reg>>,
                   get_known_craft(known_db, icao_hex, reg))
        /\ known_db' = [known_db EXCEPT !.db.hex_index =
                            [k \in DOMAIN hidx \ {hkey} |-> hidx[k]]]
        /\ UNCHANGED <<phase, log, tables, threads>>

Call_get_known_craft(icao_hex, reg) ==
    /\ Returns("get_known_craft", <<icao_hex, reg>>,
               get_known_craft(known_db, icao_hex, reg))
    /\ UNCHANGED <<phase, log, tables, known_db, threads>>

Call_set_name_callsign(icao, reg, craft_type, flight, known_craft) ==
    /\ Returns("set_name_callsign", <<icao, reg, craft_type, flight, known_craft>>,
               set_name_callsign(icao.v, reg, craft_type, flight, known_craft))
    /\ UNCHANGED <<phase, log, tables, known_db, threads>>

Call_set_domestic_us(flight, attitude) ==
    /\ Returns("set_domestic_us", <<flight, attitude>>,
               set_domestic_us(flight, attitude))
    /\ UNCHANGED <<phase, log, tables, known_db, threads>>

\* read_known_craft, lines 595-607, over rows already normalized
Call_read_known_craft(all_rows) ==
    /\ Returns("read_known_craft", <<all_rows>>, <<>>)
    /\ known_db' = [loaded |-> TRUE, db |-> build_index(all_rows)]
    /\ UNCHANGED <<phase, log, tables, threads>>

\* the caller takes the result and is ready for its next call
Resume ==
    /\ call[1] # "idle"
    /\ call' = Idle
    /\ UNCHANGED <<phase, log, tables, known_db, threads>>

SmallAddresses ==
    { PyInt(\h4D0223), PyInt(\hADF7C8), PyInt(\hE40000),
      PyStr(<<"a","6","1","d","0","0">>) }
SmallCategories == { PyNone, PyStr(<<"A","3">>), PyStr(<<"A","6">>),
                     PyStr(<<"C","1">>) }
SmallFlights == { PyNone, PyStr(<<"C","6","1","2","3","4">>),
                  PyStr(<<"U","A","L","2","1","5","3">>) }

NameIcaos == { PyStr(<<"i","c","a","o","1">>), PyStr(hAE2682) }
NameRegs == { PyNone, PyStr(<<>>), PyStr(<<"r","e","g","1">>) }
NameTypes == { PyNone, PyStr(<<>>), PyStr(<<"B","7","3","8">>) }
NameFlights == { PyNone, PyStr(<<>>), PyStr(<<" ","f","l","i","g","h","t","1"," ">>),
                 PyStr(<<"U","A","L","2","1","5","3">>) }
NameKnownCrafts ==
    KnownCrafts \cup { [COT |-> CotFriendlyCivFixed, CALLSIGN |-> <<>>] }

CarrierFlights ==
    Flights \cup { PyStr(<<"U","A">>), PyStr(<<"A","A","L">>),
                   PyStr(<<"X","U","A","L","1">>), PyStr(<<" ","U","A","L","1">>),
                   PyStr(<<"X","O","J","9">>) }

Next ==
    \/ \E file \in CountryFiles : Import(file)
    \/ \E icao \in IntAddresses : Call_lookup_country(icao)
    \/ \E icao \in IntAddresses, att \in Attitudes :
           Call_is_known_country_icao(icao, att)
    \/ \E rt \in {"CIV", "MIL", "FOO"} : Call_get_icao_range(rt)
    \/ \E icao \in IntAddresses, rt \in {"CIV", "MIL", "FOO"} :
           Call_icao_in_known_range(icao, rt)
    \/ \E icao \in Addresses, cat \in Categories, flight \in Flights :
           Call_adsb_to_cot_type(icao, cat, flight)
    \/ \E cat \in AllCategories, att \in Attitudes, aff \in Affiliations,
          ct \in {PyNone, PyStr(<<"a","-","u","-","A","-","C">>)} :
           Call_cot_type_from_category(cat, att, aff, ct)
    \/ \E cat \in SmallCategories, k \in KnownCrafts : Call_set_category(cat, k)
    \/ \E icao \in SmallAddresses, cat \in SmallCategories,
          flight \in SmallFlights, k \in KnownCrafts :
           Call_set_cot_type(icao, cat, flight, k)
    \/ \E h \in HexKeys, r \in RegKeys : Call_get_known_craft(h, r)
    \/ \E icao \in NameIcaos, r \in NameRegs, ct \in NameTypes,
          flight \in NameFlights, k \in NameKnownCrafts :
           Call_set_name_callsign(icao, r, ct, flight, k)
    \/ \E flight \in CarrierFlights, att \in Attitudes :
           Call_set_domestic_us(flight, att)
    \/ Call_read_known_craft(KnownRows)
    \/ Resume

Spec == Init /\ [][Next]_vars

-----------------------------------------------------------------------------
(* The country lookup over every small table *)

MaxRows == 2

RowBounds == {h4D0000, h4D03FF, hE40000}

\* every row with start <= end over the bounds, for two countries
RowUniverse ==
    { Row(b, e, c) : b \in RowBounds, e \in RowBounds, c \in {Brazil, Luxembourg} }
    \ { r \in { Row(b, e, c) : b \in RowBounds, e \in RowBounds,
                               c \in {Brazil, Luxembourg} } :
            ParseHex(r.start) > ParseHex(r.end) }

\* JSON files holding a list of at most MaxRows rows, in any order
BoundedFiles ==
    { JsonList(rows) : rows \in UNION { [1..n -> RowUniverse] : n \in 0..MaxRows } }

LookupAddresses ==
    { \h4CFFFF, \h4D0000, \h4D0223, \h4D03FF, \h4D0400, \h899000, \hA61D00,
      \hC87F00, \hE40000, \hE40001 }

NextLookup ==
    \/ \E file \in BoundedFiles : Import(file)
    \/ \E icao \in LookupAddresses : Call_lookup_country(icao)
    \/ \E icao \in LookupAddresses,
          cat \in {PyNone, PyStr(<<"A","3">>)},
          flight \in {PyNone, PyStr(<<"U","A","L","2","1","5","3">>)} :
           Call_adsb_to_cot_type(PyInt(icao), cat, flight)
    \/ Resume

SpecLookup == Init /\ [][NextLookup]_vars

-----------------------------------------------------------------------------
(* Known-craft files: read_known_craft over every small file *)

MaxKnownRows == 2

\* hexid and registration given, the hex padded
CsvFull ==
    << <<<<"h","e","x","i","d">>,
         PyStr(<<" ","a","e","2","6","8","2">>)>>,
       <<<<"r","e","g","i","s","t","r","a","t","i","o","n">>,
         PyStr(<<"N","1","7","0","8","5">>)>>,
       <<<<"c","o","t">>,
         PyStr(<<"a","-","f","-","A","-","C","-","F">>)>> >>

\* quoted header and value, the same craft in another case
CsvQuoted ==
    << <<<<"\"","H","E","X","\"">>,
         PyStr(<<"\"","A","E","2","6","8","2","\"">>)>>,
       <<<<"R","E","G">>,
         PyStr(<<"n","1","7","0","8","5"," ">>)>>,
       <<<<"t","y","p","e">>,
         PyStr(<<"U","A","S">>)>> >>

\* neither hex nor registration: a missing column and a blank
CsvNoKeys ==
    << <<<<"h","e","x">>,
         PyNone>>,
       <<<<"r","e","g">>,
         PyStr(<<" ">>)>>,
       <<<<"c","o","t">>,
         PyStr(<<"a","-","n","-","A","-","C","-","F">>)>> >>

\* registration only, with a comment column
CsvRegOnly ==
    << <<<<"i","c","a","o">>,
         PyStr(<<>>)>>,
       <<<<"t","a","i","l">>,
         PyStr(<<"N","1","7","0","8","5">>)>>,
       <<<<"c","a","l","l","s","i","g","n">>,
         PyStr(<<"R","E","S","C","U","E">>)>>,
       <<<<"#","c">>,
         PyStr(<<"x">>)>> >>

\* a line of text under a first line that is no header of columns
CsvJunk ==
    << <<<<"{">>,
         PyStr(<<"\"","p","l","a","n","e","s","\"",":"," ","[">>)>> >>

\* hexid and registration given
JsonFull ==
    << <<<<"h","e","x","i","d">>,
         PyStr(<<"a","e","2","6","8","2">>)>>,
       <<<<"r","e","g","i","s","t","r","a","t","i","o","n">>,
         PyStr(<<"N","1","7","0","8","5">>)>>,
       <<<<"c","o","t">>,
         PyStr(<<"a","-","f","-","A","-","C","-","F">>)>> >>

\* the same craft in another case
JsonUpper ==
    << <<<<"H","E","X">>,
         PyStr(<<"A","E","2","6","8","2"," ">>)>>,
       <<<<"R","E","G">>,
         PyStr(<<"n","1","7","0","8","5">>)>>,
       <<<<"t","y","p","e">>,
         PyStr(<<"U","A","S">>)>> >>

\* neither hex nor registration
JsonNoKeys ==
    << <<<<"c","o","t">>,
         PyStr(<<"a","-","n","-","A","-","C","-","F">>)>> >>

\* a hex of blanks and an empty registration
JsonBlankHex ==
    << <<<<"h","e","x">>,
         PyStr(<<" ">>)>>,
       <<<<"r","e","g">>,
         PyStr(<<>>)>>,
       <<<<"c","a","l","l","s","i","g","n">>,
         PyStr(<<"R","E","S","C","U","E">>)>> >>

\* a hex that is a number
JsonIntHex ==
    << <<<<"h","e","x">>,
         PyInt(5)>>,
       <<<<"r","e","g">>,
         PyStr(<<"N","1","7","0","8","5">>)>> >>

CsvRowUniverse == {CsvFull, CsvQuoted, CsvNoKeys, CsvRegOnly}

JsonRowUniverse == {JsonFull, JsonUpper, JsonNoKeys, JsonBlankHex, JsonIntHex}

\* a file by what open, the extension test, json.load and csv.DictReader make
\* of it; delimited says that its text is a header line and rows of columns
KnownFile(exists, ext_json, delimited, json, json_rows, csv_rows) ==
    [exists |-> exists, json |-> json, ext_json |-> ext_json,
     json_rows |-> json_rows, csv_rows |-> csv_rows, delimited |-> delimited]

RowSeqs(universe) == UNION { [1..n -> universe] : n \in 0..MaxKnownRows }

\* known.csv with a header and at most MaxKnownRows rows
CsvFiles ==
    { KnownFile(TRUE, FALSE, TRUE, "none", <<>>, rows) :
          rows \in RowSeqs(CsvRowUniverse) }

\* known.json holding [...] or {"aircraft": [...]}
JsonFiles ==
    { KnownFile(TRUE, TRUE, FALSE, form, rows, <<>>) :
          form \in {"list", "aircraft"}, rows \in RowSeqs(JsonRowUniverse) }

\* no file; known.json holding {"planes": []}, 42, a CSV text, "<html>";
\* known.csv holding {"planes": []} on one line and on three lines
OtherFiles ==
    { KnownFile(FALSE, TRUE, FALSE, "none", <<>>, <<>>),
      KnownFile(TRUE, TRUE, FALSE, "object", <<>>, <<>>),
      KnownFile(TRUE, TRUE, FALSE, "scalar", <<>>, <<>>),
      KnownFile(TRUE, TRUE, TRUE, "none", <<>>, <<CsvFull>>),
      KnownFile(TRUE, TRUE, FALSE, "none", <<>>, <<>>),
      KnownFile(TRUE, FALSE, FALSE, "object", <<>>, <<>>),
      KnownFile(TRUE, FALSE, FALSE, "object", <<>>, <<CsvJunk, CsvJunk>>) }

KnownFiles == CsvFiles \cup JsonFiles \cup OtherFiles

\* the caller's filter_db = read_known_craft(known_file): assigned on return
Call_read_known_file(known_file) ==
    LET r == read_known_craft(known_file)
    IN  /\ Returns("read_known_craft", <<known_file>>,
                   IF r.exc = "" THEN PyDict(r.db) ELSE PyRaise(<<r.exc>>))
        /\ known_db' = IF r.exc = "" THEN [loaded |-> TRUE, db |-> r.db]
                       ELSE known_db
        /\ UNCHANGED <<phase, log, tables, threads>>

\* after an import that found no countries file
InitKnown ==
    /\ phase = "ready"
    /\ log = "warning"
    /\ ICAO_SORTED = <<>>
    /\ ICAO_STARTS = <<>>
    /\ RANGE_CACHE = [k \in {"CIV", "MIL"} |->
                         IF k = "CIV" THEN CIV_RANGES ELSE MIL_RANGES]
    /\ HEX_RANGES = DEFAULT_HEX_RANGES
    /\ AIRLINES = DOMESTIC_US_AIRLINES
    /\ known_db = [loaded |-> FALSE, db |-> NoDb]
    /\ call = Idle
    /\ pc = [t \in Threads |-> "idle"]
    /\ loc = [t \in Threads |-> NoLoc]

NextKnown ==
    \/ \E known_file \in KnownFiles : Call_read_known_file(known_file)
    \/ \E icao_hex \in HexKeys, reg \in RegKeys : Call_get_known_craft(icao_hex, reg)
    \/ Resume

SpecKnown == InitKnown /\ [][NextKnown]_vars

-----------------------------------------------------------------------------
(* The CIV and MIL rules and the category of a known craft, at the bounds of *)
(* every range                                                               *)

\* the first and the last address of every range of DEFAULT_HEX_RANGES, and
\* the addresses next to them
RangeAddresses ==
    UNION { { DEFAULT_HEX_RANGES[i].start - 1, DEFAULT_HEX_RANGES[i].start,
              DEFAULT_HEX_RANGES[i].end, DEFAULT_HEX_RANGES[i].end + 1 } :
            i \in 1..Len(DEFAULT_HEX_RANGES) }

\* the defaults "u" and "" of the two rules, and what a rule before them left
RuleAttitudes == { <<"u">>, <<"n">>, <<"f">> }
RuleAffiliations == { <<>>, <<"C">>, <<"M">> }

Call_set_neutral_civ(icao, attitude, affil) ==
    /\ Returns("set_neutral_civ", <<icao, attitude, affil>>,
               set_neutral_civ(icao, attitude, affil))
    /\ UNCHANGED <<phase, log, tables, known_db, threads>>

Call_set_friendly_mil(icao, attitude, affil) ==
    /\ Returns("set_friendly_mil", <<icao, attitude, affil>>,
               set_friendly_mil(icao, attitude, affil))
    /\ UNCHANGED <<phase, log, tables, known_db, threads>>

\* known-craft records by their TYPE: the three mapped names in mixed case and
\* padded, another name, a blank, and each of them under an empty COT, a blank
\* COT and a COT
KnownTypes ==
    { <<"F","i","x","e","d"," ","W","i","n","g">>, <<" ","u","a","s"," ">>,
      <<"H","E","L","I","C","O","P","T","E","R">>, <<"b","7","3","8">>,
      <<" "," ">>, <<>> }

TypeKnownCrafts ==
    { EmptyDict, [COT |-> CotFriendlyCivFixed] }
    \cup { [TYPE |-> ty] : ty \in KnownTypes }
    \cup { [COT |-> c, TYPE |-> ty] :
               c \in { <<>>, <<" ">>, CotFriendlyCivFixed }, ty \in KnownTypes }

TypeCategories == { PyNone, PyInt(3), PyStr(<<>>), PyStr(<<"A","3">>) }

NextRules ==
    \/ \E file \in CountryFiles : Import(file)
    \/ \E icao \in RangeAddresses, rt \in {"CIV", "MIL"} :
           Call_icao_in_known_range(icao, rt)
    \/ \E icao \in RangeAddresses, att \in RuleAttitudes, aff \in RuleAffiliations :
           Call_set_neutral_civ(icao, att, aff)
    \/ \E icao \in RangeAddresses, att \in RuleAttitudes, aff \in RuleAffiliations :
           Call_set_friendly_mil(icao, att, aff)
    \/ \E cat \in TypeCategories, k \in TypeKnownCrafts : Call_set_category(cat, k)
    \/ Resume

SpecRules == Init /\ [][NextRules]_vars

-----------------------------------------------------------------------------
(* Concurrent callers: each thread runs one call at a time, statement by     *)
(* statement, on its own frame of arguments and locals                       *)

\* the statement a call starts at
Entry(op) ==
    CASE op = "adsb_to_cot_type" -> "icao_int"
      [] op = "set_cot_type" -> "known_cot"
      [] OTHER -> op

\* the tables as the import leaves them, and an index read_known_craft built
InitThreads ==
    /\ phase = "ready"
    /\ \E file \in {f \in CountryFiles : Len(f.rows) = 2} :
           LET r == LoadResult(file)
           IN  /\ ICAO_SORTED = r.sorted
               /\ ICAO_STARTS = Starts(r.sorted)
               /\ log = r.level
    /\ RANGE_CACHE = [k \in {"CIV", "MIL"} |->
                         IF k = "CIV" THEN CIV_RANGES ELSE MIL_RANGES]
    /\ HEX_RANGES = DEFAULT_HEX_RANGES
    /\ AIRLINES = DOMESTIC_US_AIRLINES
    /\ known_db = [loaded |-> TRUE, db |-> build_index(KnownRows)]
    /\ call = Idle
    /\ pc = [t \in Threads |-> "idle"]
    /\ loc = [t \in Threads |-> NoLoc]

\* thread t moves to statement next with its frame changed to f
Step(t, at, next, f) ==
    /\ pc[t] = at
    /\ pc' = [pc EXCEPT ![t] = next]
    /\ loc' = [loc EXCEPT ![t] = f]
    /\ UNCHANGED <<phase, log, tables, known_db, call>>

\* a thread enters a call with its arguments
T_call(t, op, a) ==
    Step(t, "idle", Entry(op), Frame(op, a))

\* set_cot_type, lines 476-479
T_known_cot(t) ==
    LET cot_type == DictGet(loc[t].known_craft, "COT")
    IN  IF Truthy(cot_type)
        THEN Step(t, "known_cot", "done", [loc[t] EXCEPT !.result = cot_type])
        ELSE Step(t, "known_cot", "icao_int", loc[t])

\* lines 129-146
T_icao_int(t) ==
    /\ pc[t] = "icao_int"
    /\ LET n == icao_to_int(loc[t].icao)
       IN  IF n < 0
           THEN Step(t, "icao_int", "done",
                     [loc[t] EXCEPT !.result = PyRaise(<<"ValueError">>)])
           ELSE Step(t, "icao_int", "set_domestic_us",
                     [loc[t] EXCEPT !.affil = <<"C">>, !.attitude = <<"u">>,
                                    !.icao_int = n])

\* line 148
T_set_domestic_us(t) ==
    Step(t, "set_domestic_us", "is_tw",
         [loc[t] EXCEPT !.attitude = set_domestic_us(loc[t].flight, @)])

\* line 150
T_is_tw(t) ==
    Step(t, "is_tw", "set_neutral_civ",
         [loc[t] EXCEPT !.attitude = is_tw(loc[t].icao_int, @)])

\* line 152
T_set_neutral_civ(t) ==
    LET p == set_neutral_civ(loc[t].icao_int, loc[t].attitude, loc[t].affil)
    IN  Step(t, "set_neutral_civ", "is_known_country_icao",
             [loc[t] EXCEPT !.attitude = p[1], !.affil = p[2]])

\* a variant where attitude is a module global: every frame sees the write
T_is_known_country_icao_global(t) ==
    /\ pc[t] = "is_known_country_icao"
    /\ pc' = [pc EXCEPT ![t] = "set_friendly_mil"]
    /\ loc' = [u \in Threads |->
                  [loc[u] EXCEPT !.attitude =
                       is_known_country_icao(loc[t].icao_int, loc[t].attitude)]]
    /\ UNCHANGED <<phase, log, tables, known_db, call>>

\* line 154
T_is_known_country_icao(t) ==
    Step(t, "is_known_country_icao", "set_friendly_mil",
         [loc[t] EXCEPT !.attitude = is_known_country_icao(loc[t].icao_int, @)])

\* line 156
T_set_friendly_mil(t) ==
    LET p == set_friendly_mil(loc[t].icao_int, loc[t].attitude, loc[t].affil)
    IN  Step(t, "set_friendly_mil", "cot_type",
             [loc[t] EXCEPT !.attitude = p[1], !.affil = p[2]])

\* line 158
T_cot_type(t) ==
    Step(t, "cot_type", "category",
         [loc[t] EXCEPT !.cot_type = Compose(loc[t].attitude, <<"A">>,
                                             loc[t].affil, <<>>)])

\* lines 160-161
T_category(t) ==
    IF Truthy(loc[t].category)
    THEN LET r == cot_type_from_category(loc[t].category, loc[t].attitude,
                                         loc[t].affil, PyStr(loc[t].cot_type))
         IN  Step(t, "category", "is_dolphin",
                  [loc[t] EXCEPT !.cot_type = r.cot_type.v, !.affil = r.affil])
    ELSE Step(t, "category", "is_dolphin", loc[t])

\* lines 163-165
T_is_dolphin(t) ==
    LET cot_type == is_dolphin(loc[t].affil, loc[t].cot_type, loc[t].flight)
    IN  Step(t, "is_dolphin", "done",
             [loc[t] EXCEPT !.cot_type = cot_type, !.result = PyStr(cot_type)])

\* lookup_country, lines 75-82
T_lookup_country(t) ==
    Step(t, "lookup_country", "done",
         [loc[t] EXCEPT !.result = lookup_country(loc[t].icao.v)])

\* get_known_craft, lines 610-641
T_get_known_craft(t) ==
    Step(t, "get_known_craft", "done",
         [loc[t] EXCEPT !.result =
              PyDict(get_known_craft(known_db, loc[t].icao, loc[t].reg))])

\* set_name_callsign, lines 394-432
T_set_name_callsign(t) ==
    Step(t, "set_name_callsign", "done",
         [loc[t] EXCEPT !.result =
              PyTuple(set_name_callsign(loc[t].icao.v, loc[t].reg,
                                        loc[t].craft_type, loc[t].flight,
                                        loc[t].known_craft))])

\* the caller takes the result; the frame is gone
T_return(t) == Step(t, "done", "idle", NoLoc)

ThreadCalls ==
    { <<"adsb_to_cot_type", Args(i, c, f, PyNone, PyNone, EmptyDict)>> :
          i \in { PyInt(0), PyInt(\h4D0223), PyStr(<<"~","c","8","7","f","0","0">>) },
          c \in { PyNone, PyStr(<<"A","6">>) },
          f \in { PyNone, PyStr(<<"C","6","1","2","3","4">>) } }
    \cup { <<"adsb_to_cot_type",
             Args(PyStr(<<"z","z">>), PyNone, PyNone, PyNone, PyNone, EmptyDict)>> }
    \cup { <<"set_cot_type", Args(PyInt(0), PyStr(<<"A","3">>), PyNone, PyNone,
                                  PyNone, k)>> :
               k \in { EmptyDict, [COT |-> CotFriendlyCivFixed] } }
    \cup { <<"lookup_country", Args(PyInt(i), PyNone, PyNone, PyNone, PyNone,
                                    EmptyDict)>> : i \in {0, \h4D0223} }
    \cup { <<"get_known_craft", Args(h, PyNone, PyNone, r, PyNone, EmptyDict)>> :
               h \in { PyNone, PyStr(hAE2682) },
               r \in { PyStr(<<"n","1","7","0","8","5">>) } }
    \cup { <<"set_name_callsign",
             Args(PyStr(hAE2682), PyNone, PyStr(<<"U","A","L","1">>), r, r, k)>> :
               r \in { PyNone, PyStr(<<"N","1">>) },
               k \in { EmptyDict } }

NextThreads ==
    \E t \in Threads :
        \/ \E c \in ThreadCalls : T_call(t, c[1], c[2])
        \/ T_known_cot(t)
        \/ T_icao_int(t)
        \/ T_set_domestic_us(t)
        \/ T_is_tw(t)
        \/ T_set_neutral_civ(t)
        \/ T_is_known_country_icao(t)
        \/ T_set_friendly_mil(t)
        \/ T_cot_type(t)
        \/ T_category(t)
        \/ T_is_dolphin(t)
        \/ T_lookup_country(t)
        \/ T_get_known_craft(t)
        \/ T_set_name_callsign(t)
        \/ T_return(t)

SpecThreads == InitThreads /\ [][NextThreads]_vars

-----------------------------------------------------------------------------
(* Vocabulary of the properties, stated without the operators above *)

\* s.endswith(p)
EndsWith(s, p) == Len(s) >= Len(p) /\ SubSeq(s, Len(s) - Len(p) + 1, Len(s)) = p

\* the address lies in a row of the loaded country table
InCountryRange(n) ==
    \E i \in 1..Len(ICAO_SORTED) :
        ICAO_SORTED[i].start <= n /\ n <= ICAO_SORTED[i].end

\* the address lies in a range of DEFAULT_HEX_RANGES of the kind "CIV" / "MIL"
InRangeOfKind(n, kind) ==
    \E i \in 1..Len(DEFAULT_HEX_RANGES) :
        /\ EndsWith(DEFAULT_HEX_RANGES[i].key, <<"-">> \o kind)
        /\ DEFAULT_HEX_RANGES[i].start <= n
        /\ n <= DEFAULT_HEX_RANGES[i].end

CIV == <<"C","I","V">>
MIL == <<"M","I","L">>

InSpecialRegion(n) == \h899000 <= n /\ n <= \h8993FF

HasCarrierPrefix(flight) ==
    /\ flight.t = "str"
    /\ Len(flight.v) >= 3
    /\ SubSeq(flight.v, 1, 3) \in SeqToSet(DOMESTIC_US_AIRLINES)

\* s.split("-")
RECURSIVE Split(_, _)
Split(s, cur) ==
    IF s = <<>> THEN <<cur>>
    ELSE IF Head(s) = "-" THEN <<cur>> \o Split(Tail(s), <<>>)
    ELSE Split(Tail(s), cur \o <<Head(s)>>)

Segments(s) == Split(s, <<>>)

\* "-".join(parts)
RECURSIVE Join(_)
Join(parts) ==
    IF Len(parts) = 1 THEN parts[1]
    ELSE parts[1] \o <<"-">> \o Join(Tail(parts))

\* codes written as numbers, and as a letter followed by a digit
Num(S) == { IntToStr(n) : n \in S }
Let(letter, S) == { <<letter, Digits[d + 1]>> : d \in S }

\* the category a call of adsb_to_cot_type acts on, "" when it skips the table
CodeOf(category) == IF Truthy(category) THEN Str(category) ELSE <<>>

SurfaceCodes == Num({17, 18}) \cup Let("C", {1, 2})
ObstacleCodes == Num({19, 20}) \cup Let("C", {3, 4})

IsAdsbCall == call[1] = "adsb_to_cot_type" /\ call[3].exc = ""

\* the key as the indexes hold it
KeyOf(x) == IF x.t = "str" THEN ToUpper(Strip(x.v)) ELSE <<>>

-----------------------------------------------------------------------------
(* C1 *)

\* C1: set_cot_type with a known-craft record whose COT is non-empty returns
\* exactly that COT, whatever the address, category and flight; with COT absent
\* or empty it returns what adsb_to_cot_type(address, category, flight) returns.
C1_KnownCotOverride ==
    call[1] = "set_cot_type" =>
        LET known == call[2][4]
        IN  IF "COT" \in DOMAIN known /\ known["COT"] # <<>>
            THEN call[3] = [exc |-> "", cot_type |-> known["COT"]]
            ELSE LET r == adsb_to_cot_type(call[2][1], call[2][2], call[2][3])
                 IN  call[3] = [exc |-> r.exc, cot_type |-> r.cot_type]

\* a MIL address with a "C6" flight and a surface category: the rules alone
\* give the dolphin code, the known COT is returned instead
C1_Witness ==
    /\ call[1] = "set_cot_type"
    /\ call[2][1] = PyInt(\hADF7C8)
    /\ call[2][2] = PyStr(<<"C","1">>)
    /\ call[2][3] = PyStr(<<"C","6","1","2","3","4">>)
    /\ "COT" \in DOMAIN call[2][4]
    /\ call[3].cot_type = CotFriendlyCivFixed
    /\ adsb_to_cot_type(call[2][1], call[2][2], call[2][3]).cot_type
           = <<"a","-","f","-","A","-","M","-","H","-","H">>

-----------------------------------------------------------------------------
(* C2 *)

\* C2: after the five rule steps (attitude, affiliation) is ("f","M") if the
\* address lies in any MIL range; otherwise ("n","C") if the flight has a
\* domestic-carrier prefix or the address lies in 0x899000..0x8993FF, in any
\* CIV range or in any country range; otherwise ("u","C").  With a fixed-wing
\* category and a non-MIL address that hits a neutral rule the type code is
\* "a-n-A-C-F".
C2_AffiliationChain ==
    IsAdsbCall =>
        LET n == icao_to_int(call[2][1])
            flight == call[2][3]
            neutral == \/ HasCarrierPrefix(flight)
                       \/ InSpecialRegion(n)
                       \/ InRangeOfKind(n, CIV)
                       \/ InCountryRange(n)
            pair == <<call[3].attitude, call[3].affil>>
        IN  /\ pair = IF InRangeOfKind(n, MIL) THEN << <<"f">>, <<"M">> >>
                      ELSE IF neutral THEN << <<"n">>, <<"C">> >>
                      ELSE << <<"u">>, <<"C">> >>
            /\ ( /\ CodeOf(call[2][2]) \in Num(1..5) \cup Let("A", 1..5)
                 /\ ~InRangeOfKind(n, MIL)
                 /\ neutral )
               => call[3].cot_type = <<"a","-","n","-","A","-","C","-","F">>

-----------------------------------------------------------------------------
(* C3 *)

\* what the call of frame f returns when nothing else runs
Sequential(f) ==
    CASE f.op = "adsb_to_cot_type" ->
             LET r == adsb_to_cot_type(f.icao, f.category, f.flight)
             IN  IF r.exc # "" THEN PyRaise(<<r.exc>>) ELSE PyStr(r.cot_type)
      [] f.op = "set_cot_type" ->
             LET r == set_cot_type(f.icao, f.category, f.flight, f.known_craft)
             IN  IF r.exc # "" THEN PyRaise(<<r.exc>>) ELSE PyStr(r.cot_type)
      [] f.op = "lookup_country" -> lookup_country(f.icao.v)
      [] f.op = "get_known_craft" ->
             PyDict(get_known_craft(known_db, f.icao, f.reg))
      [] f.op = "set_name_callsign" ->
             PyTuple(set_name_callsign(f.icao.v, f.reg, f.craft_type, f.flight,
                                       f.known_craft))

SameInputs(f, g) ==
    /\ f.op = g.op /\ f.icao = g.icao /\ f.category = g.category
    /\ f.flight = g.flight /\ f.reg = g.reg /\ f.craft_type = g.craft_type
    /\ f.known_craft = g.known_craft

\* C3: with the tables loaded, whatever calls run before or interleaved with
\* it, a call returns what it returns when run alone, and two calls with equal
\* inputs return equal results.
C3_Deterministic ==
    /\ \A t \in Threads :
           pc[t] = "done" => loc[t].result = Sequential(loc[t])
    /\ \A t, u \in Threads :
           pc[t] = "done" /\ pc[u] = "done" /\ SameInputs(loc[t], loc[u])
               => loc[t].result = loc[u].result

\* one thread has returned the neutral code of a country-table address while
\* the other, with an address in no table, is between its rule steps
C3_Witness ==
    /\ pc[1] = "done"
    /\ loc[1].op = "adsb_to_cot_type"
    /\ loc[1].icao = PyInt(\h4D0223)
    /\ loc[1].result = PyStr(<<"a","-","n","-","A","-","C">>)
    /\ pc[2] = "set_friendly_mil"
    /\ loc[2].icao = PyInt(0)
    /\ loc[2].attitude = <<"u">>

-----------------------------------------------------------------------------
(* C4 *)

ReadOnlyOps ==
    { "lookup_country", "icao_in_known_range", "get_icao_range",
      "adsb_to_cot_type", "cot_type_from_category", "set_category",
      "set_cot_type", "get_known_craft" }

\* C4: every classification or lookup operation leaves the country table, the
\* CIV/MIL range tables and cache, the carrier list and the known-craft
\* rows/hex_index/reg_index as they were.
C4_TablesReadOnly ==
    [][call'[1] \in ReadOnlyOps => UNCHANGED <<tables, known_db>>]_vars

\* a lookup that found a record in a loaded index, beside a loaded country table
C4_Witness ==
    /\ call[1] = "get_known_craft"
    /\ known_db.loaded
    /\ call[3] # EmptyDict
    /\ ICAO_SORTED # <<>>

-----------------------------------------------------------------------------
(* C5, C6, C7 *)

\* C5: for every table whose rows satisfy start <= end (overlapping and nested
\* rows included) lookup_country returns a country iff some row contains the
\* address, and the country is that of a row containing the address.
C5_LookupFindsContaining ==
    call[1] = "lookup_country" =>
        LET n == call[2][1]
        IN  /\ (call[3] # PyNone) <=> InCountryRange(n)
            /\ call[3] # PyNone =>
                   \E i \in 1..Len(ICAO_SORTED) :
                       /\ ICAO_SORTED[i].start <= n /\ n <= ICAO_SORTED[i].end
                       /\ ICAO_SORTED[i].country = call[3].v

\* C6: for every row (start, end, country) of the loaded table,
\* lookup_country(start) and lookup_country(end) return that row's country.
C6_InclusiveBounds ==
    call[1] = "lookup_country" =>
        \A i \in 1..Len(ICAO_SORTED) :
            call[2][1] \in {ICAO_SORTED[i].start, ICAO_SORTED[i].end}
                => call[3] = PyStr(ICAO_SORTED[i].country)

\* C7 as stated: an address in no row of the country table is not found, and
\* adsb_to_cot_type with no category and no flight gives it attitude "u".
C7_NoMatchDefaultAsStated ==
    /\ call[1] = "lookup_country" /\ ~InCountryRange(call[2][1])
           => call[3] = PyNone
    /\ ( /\ IsAdsbCall
         /\ call[2][2] = PyNone /\ call[2][3] = PyNone
         /\ ~InCountryRange(call[2][1].v) )
       => Segments(call[3].cot_type)[2] = <<"u">>

\* C7, amended: an address in no row of the country table is not found; with
\* no category and no flight its attitude is "u" when it also lies in no CIV
\* range, in no MIL range and outside 0x899000..0x8993FF.
C7_NoMatchDefault ==
    /\ call[1] = "lookup_country" /\ ~InCountryRange(call[2][1])
           => call[3] = PyNone
    /\ ( /\ IsAdsbCall
         /\ call[2][2] = PyNone /\ call[2][3] = PyNone
         /\ ~InCountryRange(call[2][1].v)
         /\ ~InRangeOfKind(call[2][1].v, CIV)
         /\ ~InRangeOfKind(call[2][1].v, MIL)
         /\ ~InSpecialRegion(call[2][1].v) )
       => Segments(call[3].cot_type)[2] = <<"u">>

\* the table has rows, the address follows one of them and lies in none
C7_Witness ==
    /\ IsAdsbCall
    /\ call[2] = <<PyInt(\h4D0400), PyNone, PyNone>>
    /\ ICAO_SORTED # <<>>
    /\ ICAO_SORTED[1].start <= \h4D0400
    /\ ~InCountryRange(\h4D0400)
    /\ call[3].cot_type = <<"a","-","u","-","A","-","C">>

-----------------------------------------------------------------------------
(* C8 *)

NoInfoCodes ==
    Num({0, 8, 13, 16} \cup 22..39) \cup Let("A", {0}) \cup Let("B", {0, 5})
    \cup Let("C", {0, 6, 7}) \cup Let("D", 0..7)

\* the row of the decision table for code c: <<type code, affiliation>>, or
\* <<>> for a code the claim does not list
TableRow(c, att, aff) ==
    LET one(ch) == <<ch>>
        code(parts) == Join(<<one("a"), att>> \o parts)
    IN  CASE c \in Num(1..5) \cup Let("A", 1..5) ->
                 <<code(<<one("A"), aff, one("F")>>), aff>>
          [] c \in Num({6}) \cup Let("A", {6}) ->
                 <<code(<<one("A"), one("M"), one("F"), one("F")>>), one("M")>>
          [] c \in Num({7}) \cup Let("A", {7}) ->
                 <<code(<<one("A"), aff, one("H")>>), aff>>
          [] c \in Num({9}) \cup Let("B", {1}) ->
                 <<code(<<one("A"), aff, one("F")>>), aff>>
          [] c \in Num({10}) \cup Let("B", {2}) ->
                 <<code(<<one("A"), aff, one("L")>>), aff>>
          [] c \in Num({14}) \cup Let("B", {6}) ->
                 <<code(<<one("A"), one("M"), one("F"), one("Q")>>), one("M")>>
          [] c \in Num({15}) \cup Let("B", {7}) ->
                 <<code(<<one("P"), aff>>), aff>>
          [] c \in SurfaceCodes ->
                 <<Join(<<one("a"), one("."), one("G"), one("E"), one("V"),
                          one("C"), one("U")>>), aff>>
          [] c \in NoInfoCodes ->
                 <<code(<<one("A"), aff>>), aff>>
          [] OTHER -> <<>>

\* C8: for every attitude and input affiliation cot_type_from_category returns
\* the type code and the affiliation of the decision table's row for the
\* category: 1-5/A1-A5 a-{att}-A-{aff}-F; 6/A6 a-{att}-A-M-F-F with M forced;
\* 7/A7 -H; 9/B1 -F; 10/B2 -L; 14/B6 a-{att}-A-M-F-Q with M forced; 15/B7
\* a-{att}-P-{aff}; 17/18/C1/C2 the literal a-.-G-E-V-C-U; the no-information
\* codes a-{att}-A-{aff}.
C8_CategoryTable ==
    call[1] = "cot_type_from_category" =>
        LET row == TableRow(Str(call[2][1]), call[2][2], call[2][3])
        IN  row # <<>> =>
                call[3] = [cot_type |-> PyStr(row[1]), affil |-> row[2]]

\* category A6 with the civilian affiliation: M is forced, the suffix is -F-F
C8_Witness ==
    /\ call[1] = "cot_type_from_category"
    /\ call[2][1] = PyStr(<<"A","6">>)
    /\ call[2][2] = <<"n">>
    /\ call[2][3] = <<"C">>
    /\ call[3].affil = <<"M">>
    /\ call[3].cot_type = PyStr(<<"a","-","n","-","A","-","M","-","F","-","F">>)

-----------------------------------------------------------------------------
(* C9, C10 *)

\* flight[:2] == "C6" for a flight that is a string
StartsWithMarker(flight) ==
    flight.t = "str" /\ Len(flight.v) >= 2 /\ flight.v[1] = "C" /\ flight.v[2] = "6"

\* a-{attitude}-{domain}-{affiliation}[-{platform-suffix}]
Grammar(cot_type) ==
    LET segs == Segments(cot_type)
    IN  /\ Len(segs) >= 4
        /\ segs[1] = <<"a">>
        /\ segs[2] \in { <<"f">>, <<"n">>, <<"u">>, <<".">> }
        /\ segs[3] \in { <<"A">>, <<"G">>, <<"P">> }
        /\ segs[4] \in { <<"C">>, <<"M">> }
        /\ \A i \in 5..Len(segs) : segs[i] # <<>>

DolphinCode == <<"a","-","f","-","A","-","M","-","H","-","H">>

\* C9 as stated: every type code adsb_to_cot_type returns has the form
\* a-{attitude}-{domain}-{affiliation}[-{suffix}], those of the surface and
\* obstacle codes included.
C9_GrammarAsStated == IsAdsbCall => Grammar(call[3].cot_type)

\* C9, amended: a type code adsb_to_cot_type returns has that form unless the
\* category is a surface or obstacle code and the result is not the dolphin
\* code; then it is a-.-G-E-V-C-U for a surface code and
\* a-{attitude}-G-I-U-T-com-tow for an obstacle code, without affiliation.
C9_Grammar ==
    IsAdsbCall =>
        LET c == CodeOf(call[2][2])
            r == call[3].cot_type
        IN  IF r = DolphinCode \/ c \notin SurfaceCodes \cup ObstacleCodes
            THEN Grammar(r)
            ELSE IF c \in SurfaceCodes
            THEN r = Join(<< <<"a">>, <<".">>, <<"G">>, <<"E">>, <<"V">>,
                             <<"C">>, <<"U">> >>)
            ELSE r = Join(<< <<"a">>, call[3].attitude, <<"G">>, <<"I">>, <<"U">>,
                             <<"T">>, <<"c","o","m">>, <<"t","o","w">> >>)

\* an obstacle code at a neutral address, and no dolphin
C9_Witness ==
    /\ IsAdsbCall
    /\ call[2][2] = PyStr(<<"C","4">>)
    /\ call[3].attitude = <<"n">>
    /\ call[3].cot_type = <<"a","-","n","-","G","-","I","-","U","-","T","-",
                            "c","o","m","-","t","o","w">>

\* C10 as stated: a flight starting with "C6" and affiliation M after the
\* category step give a-f-A-M-H-H; otherwise the type code of the earlier
\* steps is returned unchanged.
C10_DolphinAsStated ==
    IsAdsbCall =>
        call[3].cot_type =
            IF StartsWithMarker(call[2][3]) /\ call[3].affil_cat = <<"M">>
            THEN DolphinCode
            ELSE call[3].stepped

\* C10, amended: a flight of at least three characters starting with "C6" and
\* affiliation M after the category step give a-f-A-M-H-H, whatever the
\* category gave; otherwise the type code of the earlier steps is returned.
C10_Dolphin ==
    IsAdsbCall =>
        call[3].cot_type =
            IF /\ StartsWithMarker(call[2][3])
               /\ Len(call[2][3].v) >= 3
               /\ call[3].affil_cat = <<"M">>
            THEN DolphinCode
            ELSE call[3].stepped

\* a surface code at a MIL address: the literal is replaced by the dolphin code
C10_Witness ==
    /\ IsAdsbCall
    /\ call[2][2] = PyStr(<<"C","1">>)
    /\ call[2][3] = PyStr(<<"C","6","1","2","3","4">>)
    /\ call[3].stepped = SurfaceLiteral
    /\ call[3].affil_cat = <<"M">>
    /\ call[3].cot_type = DolphinCode

-----------------------------------------------------------------------------
(* Vocabulary of the known-craft indexes *)

\* the key a row is filed under in the index of a column
RowKey(row, field) == IF field \in DOMAIN row THEN KeyOf(PyStr(row[field])) ELSE <<>>

\* the positions of the rows filed under k
RowsWith(rows, field, k) == { i \in 1..Len(rows) : RowKey(rows[i], field) = k }

Last(S) == CHOOSE i \in S : \A j \in S : j <= i

-----------------------------------------------------------------------------
(* C11 *)

\* a key is supplied: neither None nor the empty string
Supplied(key) == key.t = "str" /\ key.v # <<>>

\* hex first, then registration, then the empty record
Precedence(db, hex, reg, found) ==
    IF Supplied(hex) /\ KeyOf(hex) \in DOMAIN db.hex_index
    THEN found = db.hex_index[KeyOf(hex)]
    ELSE IF Supplied(reg) /\ KeyOf(reg) \in DOMAIN db.reg_index
    THEN found = db.reg_index[KeyOf(reg)]
    ELSE found = EmptyDict

\* the rows i of the index with a registration and a COT that a lookup by that
\* registration alone has to return
RegistrationRows(db, reg) ==
    { i \in 1..Len(db.rows) :
          /\ "REG" \in DOMAIN db.rows[i] /\ "COT" \in DOMAIN db.rows[i]
          /\ KeyOf(PyStr(db.rows[i]["REG"])) = KeyOf(reg)
          /\ KeyOf(reg) # <<>> }

ReturnsCot(found, row) == "COT" \in DOMAIN found /\ found["COT"] = row["COT"]

-----------------------------------------------------------------------------
(* C12 *)

\* index holds, for each of its keys, the last row filed under it
LastRowWins(rows, index, field) ==
    \A k \in DOMAIN index :
        /\ RowsWith(rows, field, k) # {}
        /\ index[k] = rows[Last(RowsWith(rows, field, k))]

\* C12: in the index read_known_craft returns, the record under a key of
\* hex_index (reg_index) is the last of the rows whose upper-cased, trimmed HEX
\* (REG) is that key, and a lookup by a key returns that last row.
C12_LastRowWins ==
    /\ call[1] = "read_known_craft" /\ call[3].t = "dict"
           => /\ LastRowWins(call[3].v.rows, call[3].v.hex_index, "HEX")
              /\ LastRowWins(call[3].v.rows, call[3].v.reg_index, "REG")
    /\ call[1] = "get_known_craft" /\ known_db.loaded
           => LET rows == known_db.db.rows
                  h == KeyOf(call[2][1])
                  r == KeyOf(call[2][2])
              IN  /\ RowsWith(rows, "HEX", h) # {} /\ h # <<>>
                         => call[3] = rows[Last(RowsWith(rows, "HEX", h))]
                  /\ call[2][1] = PyNone /\ RowsWith(rows, "REG", r) # {} /\ r # <<>>
                         => call[3] = rows[Last(RowsWith(rows, "REG", r))]

\* two rows of one address, " ae2682" and "AE2682", the second one returned
C12_Witness ==
    /\ call[1] = "get_known_craft"
    /\ call[2][1] = PyStr(<<"A","E","2","6","8","2">>)
    /\ Len(known_db.db.rows) = 2
    /\ RowsWith(known_db.db.rows, "HEX", <<"A","E","2","6","8","2">>) = {1, 2}
    /\ known_db.db.rows[1] # known_db.db.rows[2]
    /\ call[3] = known_db.db.rows[2]

-----------------------------------------------------------------------------
(* C13 *)

\* the row has a non-empty value in the column
NonEmpty(row, field) == field \in DOMAIN row /\ row[field] # <<>>

\* C13: every row of the index read_known_craft returns, from a delimited or a
\* structured file, has a non-empty HEX or a non-empty REG, and so has every
\* record of hex_index and reg_index.
C13_KeylessRowsDropped ==
    call[1] = "read_known_craft" /\ call[3].t = "dict"
        => LET db == call[3].v
           IN  /\ \A i \in 1..Len(db.rows) :
                      NonEmpty(db.rows[i], "HEX") \/ NonEmpty(db.rows[i], "REG")
               /\ \A k \in DOMAIN db.hex_index :
                      NonEmpty(db.hex_index[k], "HEX") \/ NonEmpty(db.hex_index[k], "REG")
               /\ \A k \in DOMAIN db.reg_index :
                      NonEmpty(db.reg_index[k], "HEX") \/ NonEmpty(db.reg_index[k], "REG")

-----------------------------------------------------------------------------
(* C14 *)

\* C14: a failed load of the country data is reported before any
\* classification runs: lookup_country and adsb_to_cot_type never execute
\* after an import that ended in its FileNotFoundError / Exception handler.
C14_LoadErrorsSurfaced ==
    call[1] \in {"lookup_country", "adsb_to_cot_type"} => log = "none"

-----------------------------------------------------------------------------
(* C15 *)

\* a file of header and rows, or a document that is an array or an object
\* with an aircraft array
ValidSource(known_file) ==
    /\ known_file.exists
    /\ known_file.delimited \/ known_file.json \in {"list", "aircraft"}

\* C15: read_known_craft of a file that is neither a valid delimited file nor
\* a valid structured document raises, and returns no index, empty or partial.
C15_BadFormatFails ==
    call[1] = "read_known_craft" /\ ~ValidSource(call[2][1])
        => call[3].t = "raise"

-----------------------------------------------------------------------------
(* C16 *)

HexChars ==
    { "0","1","2","3","4","5","6","7","8","9",
      "a","b","c","d","e","f","A","B","C","D","E","F" }

\* an integer, or a hex string with "~" markers
Parsable(icao) ==
    \/ icao.t = "int"
    \/ /\ icao.t = "str"
       /\ \E i \in 1..Len(icao.v) : icao.v[i] # "~"
       /\ \A i \in 1..Len(icao.v) : icao.v[i] \in HexChars \cup {"~"}

\* C16: for a parsable address, any category and any flight, adsb_to_cot_type
\* and set_cot_type return a type code and raise nothing, and an address that
\* no rule matches gets attitude "u"; get_known_craft returns a record, the
\* empty one when neither key is in its index.
C16_MissesAreNotErrors ==
    /\ call[1] \in {"adsb_to_cot_type", "set_cot_type"} /\ Parsable(call[2][1])
           => call[3].exc = "" /\ call[3].cot_type # <<>>
    /\ call[1] = "adsb_to_cot_type" /\ Parsable(call[2][1])
           => LET n == icao_to_int(call[2][1])
              IN  ( /\ ~HasCarrierPrefix(call[2][3])
                    /\ ~InSpecialRegion(n)
                    /\ ~InRangeOfKind(n, CIV)
                    /\ ~InRangeOfKind(n, MIL)
                    /\ ~InCountryRange(n) )
                  => call[3].attitude = <<"u">>
    /\ call[1] = "get_known_craft"
           => /\ DOMAIN call[3] \subseteq {"HEX", "REG", "COT", "TYPE", "CALLSIGN"}
              /\ ( /\ KeyOf(call[2][1]) \notin DOMAIN known_db.db.hex_index
                   /\ KeyOf(call[2][2]) \notin DOMAIN known_db.db.reg_index )
                 => call[3] = EmptyDict

\* a marked hex string in no table, an unlisted category and an empty flight
C16_Witness ==
    /\ call[1] = "adsb_to_cot_type"
    /\ call[2] = << PyStr(<<"~","c","8","7","f","0","0">>), PyStr(<<"a","6">>),
                    PyStr(<<>>) >>
    /\ call[3].exc = ""
    /\ ICAO_SORTED = <<>>

-----------------------------------------------------------------------------
(* C17, C18 *)

\* an optional string that is given and not empty
Present(x) == x.t = "str" /\ x.v # <<>>

IcaoName(icao) == <<"I","C","A","O","-">> \o icao

\* the callsign composed from flight, reg and craft_type
Composition(icao, reg, craft_type, flight) ==
    IF Present(flight) /\ Present(reg) /\ Present(craft_type)
    THEN Join(<<ToUpper(Strip(flight.v)), reg.v, craft_type.v>>)
    ELSE IF Present(reg) /\ Present(craft_type)
    THEN Join(<<reg.v, craft_type.v>>)
    ELSE IF Present(flight) THEN ToUpper(Strip(flight.v))
    ELSE IF Present(reg) THEN reg.v
    ELSE IcaoName(icao)

HasKnownCallsign(known) == "CALLSIGN" \in DOMAIN known /\ known["CALLSIGN"] # <<>>

AddressSuffix(icao) == <<" ", "(">> \o icao \o <<")">>

\* C17: with no known CALLSIGN set_name_callsign returns name "ICAO-" + icao
\* and a callsign that is exactly FLIGHT-REG-TYPE, REG-TYPE, FLIGHT, REG or the
\* name, with nothing else added to it.
C17_CallsignComposition ==
    call[1] = "set_name_callsign" /\ ~HasKnownCallsign(call[2][5]) =>
        /\ call[3][1] = IcaoName(call[2][1].v)
        /\ call[3][2] = Composition(call[2][1].v, call[2][2], call[2][3],
                                    call[2][4])

-----------------------------------------------------------------------------
(* C19 *)

-----------------------------------------------------------------------------
(* C20 *)

\* the attitude segment of the type code of an adsb_to_cot_type call with no
\* category and no flight at an address the country lookup finds
CountryHit ==
    /\ IsAdsbCall
    /\ call[2][2] = PyNone /\ call[2][3] = PyNone
    /\ lookup_country(icao_to_int(call[2][1])) # PyNone

\* C20 as stated: where the country lookup succeeds the attitude is "n", also
\* for an address in a MIL range.
C20_CountryOverMilAsStated ==
    CountryHit => Segments(call[3].cot_type)[2] = <<"n">>

\* C20, amended: where the country lookup succeeds the attitude is "n", unless
\* the address lies in a MIL range: then it is "f".
C20_CountryThenMil ==
    CountryHit =>
        Segments(call[3].cot_type)[2] =
            IF InRangeOfKind(icao_to_int(call[2][1]), MIL) THEN <<"f">>
            ELSE <<"n">>

\* an NZ-MIL address the country table holds as New Zealand
C20_Witness ==
    /\ CountryHit
    /\ call[2][1] = PyInt(\hC87F00)
    /\ lookup_country(\hC87F00) = PyStr(NewZealand)
    /\ call[3].cot_type = <<"a","-","f","-","A","-","M">>

-----------------------------------------------------------------------------
(* C21 *)

\* the codes of the groups of the category table
TableCodes ==
    Num(1..5) \cup Let("A", 1..5) \cup Num({6, 7, 9, 10, 14, 15})
    \cup Let("A", {6, 7}) \cup Let("B", {1, 2, 6, 7})
    \cup SurfaceCodes \cup ObstacleCodes \cup NoInfoCodes

Unlisted(category) == Str(category) \notin TableCodes

\* C21: for a category code in none of the groups of the table,
\* cot_type_from_category returns the cot_type and the affiliation it was
\* given, and adsb_to_cot_type returns the type code it returns for the same
\* address and flight with no category.
C21_UnlistedUnchanged ==
    /\ call[1] = "cot_type_from_category" /\ Unlisted(call[2][1])
           => call[3] = [affil |-> call[2][3], cot_type |-> call[2][4]]
    /\ IsAdsbCall /\ Unlisted(call[2][2])
           => call[3].cot_type
                  = adsb_to_cot_type(call[2][1], PyNone, call[2][3]).cot_type

\* category "12" with affiliation "M" and a type code of another attitude:
\* both come back as given
C21_Witness ==
    /\ call[1] = "cot_type_from_category"
    /\ call[2] = << PyStr(<<"1","2">>), <<"f">>, <<"M">>,
                    PyStr(<<"a","-","u","-","A","-","C">>) >>
    /\ call[3] = [affil |-> <<"M">>,
                  cot_type |-> PyStr(<<"a","-","u","-","A","-","C">>)]

-----------------------------------------------------------------------------
(* C22 *)

IsRuleCall(op) == call[1] = op

Unchanged == call[3] = <<call[2][2], call[2][3]>>

\* C22 as stated: set_neutral_civ leaves attitude and affiliation as given at
\* every address in a MIL range, set_friendly_mil at every address in a CIV
\* range, and no address is in a CIV and in a MIL range for icao_in_known_range.
C22_ExclusiveAsStated ==
    /\ IsRuleCall("set_neutral_civ") /\ InRangeOfKind(call[2][1], MIL) => Unchanged
    /\ IsRuleCall("set_friendly_mil") /\ InRangeOfKind(call[2][1], CIV) => Unchanged
    /\ IsRuleCall("icao_in_known_range") /\ call[3]
           => ~InRangeOfKind(call[2][1], IF call[2][2] = "CIV" THEN MIL ELSE CIV)

\* the MIL ranges that lie inside the CIV range of their country
AusMil(n) == \h7CF800 <= n /\ n <= \h7CFAFF
UkMil(n) == \h43C000 <= n /\ n <= \h43CFFF

\* C22, amended: set_neutral_civ leaves its inputs at an address in a MIL range
\* and in no CIV range, set_friendly_mil at an address in a CIV range and in no
\* MIL range; icao_in_known_range is true for both kinds exactly at the
\* addresses of AUS-MIL and UK-MIL, where set_neutral_civ returns ("n", "C")
\* and set_friendly_mil returns ("f", "M").
C22_ExclusiveOutsideNested ==
    /\ IsRuleCall("set_neutral_civ")
           => IF InRangeOfKind(call[2][1], CIV)
              THEN call[3] = << <<"n">>, <<"C">> >>
              ELSE Unchanged
    /\ IsRuleCall("set_friendly_mil")
           => IF InRangeOfKind(call[2][1], MIL)
              THEN call[3] = << <<"f">>, <<"M">> >>
              ELSE Unchanged
    /\ IsRuleCall("icao_in_known_range")
           => /\ call[3] = InRangeOfKind(call[2][1],
                                         IF call[2][2] = "CIV" THEN CIV ELSE MIL)
              /\ (InRangeOfKind(call[2][1], CIV) /\ InRangeOfKind(call[2][1], MIL))
                     <=> (AusMil(call[2][1]) \/ UkMil(call[2][1]))

\* the first NZ-MIL address with the defaults: set_neutral_civ changes nothing
C22_Witness ==
    /\ IsRuleCall("set_neutral_civ")
    /\ call[2] = << \hC87F00, <<"u">>, <<>> >>
    /\ InRangeOfKind(\hC87F00, MIL)
    /\ call[3] = << <<"u">>, <<>> >>

-----------------------------------------------------------------------------
(* C23 *)

\* the category of a TYPE, trimmed and in upper case
DerivedCategory(type) ==
    LET name == KeyOf(PyStr(type))
    IN  CASE name = <<"F","I","X","E","D"," ","W","I","N","G">> -> <<"1">>
          [] name = <<"H","E","L","I","C","O","P","T","E","R">> -> <<"7">>
          [] name = <<"U","A","S">> -> <<"1","4">>
          [] OTHER -> name

Blank(s) == \A i \in 1..Len(s) : s[i] = " "

\* C23: set_category returns the category it was given when the record's COT
\* is non-empty or its TYPE is absent or blank; otherwise it returns the
\* category of the TYPE, trimmed and in upper case: "FIXED WING" gives "1",
\* "HELICOPTER" "7", "UAS" "14", another name itself, whatever category was
\* given.
C23_CategoryFromType ==
    call[1] = "set_category" =>
        LET category == call[2][1]
            known == call[2][2]
        IN  IF \/ "COT" \in DOMAIN known /\ known["COT"] # <<>>
               \/ "TYPE" \notin DOMAIN known
               \/ Blank(known["TYPE"])
            THEN call[3] = category
            ELSE call[3] = PyStr(DerivedCategory(known["TYPE"]))

\* category "A3" given, the record has an empty COT and the TYPE "Fixed Wing"
C23_Witness ==
    /\ call[1] = "set_category"
    /\ call[2][1] = PyStr(<<"A","3">>)
    /\ call[2][2] = [COT |-> <<>>,
                     TYPE |-> <<"F","i","x","e","d"," ","W","i","n","g">>]
    /\ call[3] = PyStr(<<"1">>)

-----------------------------------------------------------------------------
(* C24 *)

\* the rows of the table satisfy start <= end and no two of them share an
\* address
Disjoint(rows) ==
    /\ \A i \in 1..Len(rows) : rows[i].start <= rows[i].end
    /\ \A i, j \in 1..Len(rows) :
           i # j => rows[i].end < rows[j].start \/ rows[j].end < rows[i].start

Containing(rows, n) == { i \in 1..Len(rows) : rows[i].start <= n /\ n <= rows[i].end }

\* C24: on a country table of pairwise disjoint rows with start <= end,
\* lookup_country returns for every address what the scan of every row
\* returns: the country of the one row that contains the address, or None
\* when no row contains it.
C24_BisectAgreesWithScan ==
    call[1] = "lookup_country" /\ Disjoint(ICAO_SORTED) =>
        LET n == call[2][1]
            hits == Containing(ICAO_SORTED, n)
        IN  /\ call[3] = lookup_country_scan(ICAO_SORTED, n)
            /\ Cardinality(hits) <= 1
            /\ hits = {} => call[3] = PyNone
            /\ \A i \in hits : call[3] = PyStr(ICAO_SORTED[i].country)

\* two disjoint rows, the address is the start of the second
C24_Witness ==
    /\ call[1] = "lookup_country"
    /\ Len(ICAO_SORTED) = 2
    /\ Disjoint(ICAO_SORTED)
    /\ call[2][1] = ICAO_SORTED[2].start
    /\ ICAO_SORTED[1].country # ICAO_SORTED[2].country
    /\ call[3] = PyStr(ICAO_SORTED[2].country)

-----------------------------------------------------------------------------
(* C25 *)

\* C25: with a non-empty known CALLSIGN set_name_callsign returns that CALLSIGN
\* as the name and a callsign made of the CALLSIGN and the address alone: the
\* same call with any other flight, reg and craft_type returns the same pair.
C25_KnownCallsignMasks ==
    call[1] = "set_name_callsign" /\ HasKnownCallsign(call[2][5]) =>
        /\ call[3][1] = call[2][5]["CALLSIGN"]
        /\ call[3][2] = call[2][5]["CALLSIGN"] \o AddressSuffix(call[2][1].v)
        /\ \A reg \in NameRegs, craft_type \in NameTypes, flight \in NameFlights :
               set_name_callsign(call[2][1].v, reg, craft_type, flight, call[2][5])
                   = call[3]

\* flight, reg and craft_type are all given, and none of them is in the result
C25_Witness ==
    /\ call[1] = "set_name_callsign"
    /\ call[2][1] = PyStr(hAE2682)
    /\ call[2][2] = PyStr(<<"r","e","g","1">>)
    /\ call[2][3] = PyStr(<<"B","7","3","8">>)
    /\ call[2][4] = PyStr(<<"U","A","L","2","1","5","3">>)
    /\ HasKnownCallsign(call[2][5])
    /\ call[3] = << <<"R","E","S","C","U","E">>,
                    <<"R","E","S","C","U","E"," ","(">> \o hAE2682 \o <<")">> >>

=============================================================================
